---- MODULE Spec2Model ----
(***************************************************************************)
(* Model of the HackerNoon author crawler: the sitemap scraper             *)
(* (src/lib/scraper.js), the browser scraper's collectors (README +        *)
(* scraper, unnamed/part_000) and the persisting service (unnamed/part_002)*)
(*                                                                         *)
(* JavaScript values are modelled as follows.                              *)
(*   Set of strings   sequence without duplicates, in insertion order      *)
(*   Map              sequence of <<key, value>> pairs with distinct keys  *)
(*   Array            sequence                                             *)
(*   undefined / null the strings Undefined / Null                         *)
(*   object           record                                               *)
(***************************************************************************)
EXTENDS Integers, Sequences, FiniteSets, TLC

----------------------------------------------------------------------------
(* Bounds of the model.                                                    *)

\* largest per-source cap (maxArticles) a caller passes
MaxCap == 2
\* number of POST /api/scrape requests the service accepts, and of runs of
\* the pipeline
MaxRuns == 2
\* number of articles the pipeline observes over its runs
MaxObserved == 6
\* number of leading articles whose author varies
FreeArticles == 2

----------------------------------------------------------------------------
(* Program constants.                                                      *)

SEARCH_KEYWORDS ==
  << "vibe coding", "indie hacker", "solopreneur", "solo founder",
     "bootstrapped startup", "side project", "build in public",
     "solo developer", "indie developer", "maker" >>

TAG_KEYWORDS ==
  << "indie-hackers", "solopreneurship", "bootstrapping", "side-project",
     "startup-lessons", "founders", "saas", "makers" >>

HACKERNOON_BASE == "https://hackernoon.com"

\* arts.slice(0, 5)
SampleCap == 5

\* sitemapsToCheck: sitemapsToCheck || 10
DefaultSitemapsToCheck == 10

\* maxArticlesPerSitemap: maxArticlesPerSitemap || 150
DefaultMaxArticlesPerSitemap == 150

Undefined == "<undefined>"
Null == "<null>"

----------------------------------------------------------------------------
(* Generic helpers for the JavaScript containers.                          *)

Range(s) == { s[i] : i \in 1..Len(s) }

\* JavaScript truthiness of the string-or-undefined values the code tests
Falsy(v) == v \in { "", Undefined, Null }

\* a || b
OrElse(a, b) == IF Falsy(a) THEN b ELSE a

\* Set.prototype.has
SetHas(s, x) == x \in Range(s)

\* Set.prototype.add: insertion order, no duplicates
SetAdd(s, x) == IF SetHas(s, x) THEN s ELSE Append(s, x)

RECURSIVE NewSet(_)
\* new Set(iterable)
NewSet(arr) ==
  IF arr = << >> THEN << >>
  ELSE SetAdd(NewSet(SubSeq(arr, 1, Len(arr) - 1)), arr[Len(arr)])

\* Array.from(set): the elements in insertion order
ArrayFromSet(s) == [ i \in 1..Len(s) |-> s[i] ]

\* Map.prototype.has
MapHas(m, k) == \E i \in 1..Len(m) : m[i][1] = k

\* Map.prototype.get (undefined when absent)
MapGet(m, k) ==
  IF MapHas(m, k)
  THEN m[CHOOSE i \in 1..Len(m) : m[i][1] = k][2]
  ELSE Undefined

\* MapSet adding an entry whether or not the key is there
MapSetAppending(m, k, v) == Append(m, << k, v >>)

\* Map.prototype.set: an existing key keeps its position
MapSet(m, k, v) ==
  IF MapHas(m, k)
  THEN [ i \in 1..Len(m) |-> IF m[i][1] = k THEN << k, v >> ELSE m[i] ]
  ELSE Append(m, << k, v >>)

RECURSIVE NewMap(_)
\* new Map(entries)
NewMap(entries) ==
  IF entries = << >> THEN << >>
  ELSE MapSet(NewMap(SubSeq(entries, 1, Len(entries) - 1)),
              entries[Len(entries)][1], entries[Len(entries)][2])

\* Array.from(map.entries())
ArrayFromMap(m) == [ i \in 1..Len(m) |-> << m[i][1], m[i][2] >> ]

\* Array.from(map.values())
MapValues(m) == [ i \in 1..Len(m) |-> m[i][2] ]

MapKeys(m) == { m[i][1] : i \in 1..Len(m) }

\* the function F on the finite set S, computed once and kept as a table
Tabulate(S, F(_)) ==
  LET T[R \in SUBSET S] ==
        IF R = { } THEN << >>
        ELSE LET x == CHOOSE y \in R : TRUE
             IN  (x :> F(x)) @@ T[R \ { x }]
  IN  T[S]

\* String.prototype.includes
Includes(t, k) ==
  \E i \in 1..(Len(t) - Len(k) + 1) : SubSeq(t, i, i + Len(k) - 1) = k

\* String.prototype.startsWith
StartsWith(t, k) == Len(t) >= Len(k) /\ SubSeq(t, 1, Len(k)) = k

----------------------------------------------------------------------------
(* Strings.                                                                *)

UpperChars == "ABCDEFGHIJKLMNOPQRSTUVWXYZ"
LowerChars == "abcdefghijklmnopqrstuvwxyz"

LowerChar(c) ==
  IF \E i \in 1..Len(UpperChars) : SubSeq(UpperChars, i, i) = c
  THEN LET i == CHOOSE j \in 1..Len(UpperChars) : SubSeq(UpperChars, j, j) = c
       IN  SubSeq(LowerChars, i, i)
  ELSE c

RECURSIVE ToLowerCase(_)
\* String.prototype.toLowerCase
ToLowerCase(s) ==
  IF s = "" THEN ""
  ELSE LowerChar(SubSeq(s, 1, 1)) \o ToLowerCase(SubSeq(s, 2, Len(s)))

RECURSIVE Join(_, _)
\* Array.prototype.join
Join(arr, sep) ==
  IF arr = << >> THEN ""
  ELSE IF Len(arr) = 1 THEN arr[1]
  ELSE arr[1] \o sep \o Join(Tail(arr), sep)

RECURSIVE ReplaceAll(_, _, _)
\* String.prototype.replace(/c/g, d) for a one-character pattern c
ReplaceAll(s, c, d) ==
  IF s = "" THEN ""
  ELSE (IF SubSeq(s, 1, 1) = c THEN d ELSE SubSeq(s, 1, 1))
       \o ReplaceAll(SubSeq(s, 2, Len(s)), c, d)

RECURSIVE RemoveFirst(_, _)
\* s.replace(k, ''): the first occurrence of k is removed
RemoveFirst(s, k) ==
  IF Len(s) < Len(k) THEN s
  ELSE IF SubSeq(s, 1, Len(k)) = k THEN SubSeq(s, Len(k) + 1, Len(s))
  ELSE SubSeq(s, 1, 1) \o RemoveFirst(SubSeq(s, 2, Len(s)), k)

\* the article URL of a slug, as the <loc> entries and extractArticles give it
UrlOfSlug(slug) == HACKERNOON_BASE \o "/" \o slug

\* const slug = url.replace(HACKERNOON_BASE + '/', '')
SlugOfUrl(url) == RemoveFirst(url, HACKERNOON_BASE \o "/")

----------------------------------------------------------------------------
(* The scraper object: constructor and exportState.                        *)

\* an author's keyword set as stored: a live Set, or what JSON made of it
KwSet(items) == [ isSet |-> TRUE, items |-> items ]

\* JSON.stringify(new Set(...)) is "{}": a plain object without members
KwPlainObject == [ isSet |-> FALSE, items |-> << >> ]

EmptyState ==
  [ authorsMap |-> << >>, authorArticles |-> << >>, processedUrls |-> << >>,
    processedProfiles |-> << >>, seenSlugs |-> << >> ]

\* a value that may be null: << >> is null, << v >> is the value v
None == << >>
Some(v) == << v >>
IsNone(o) == o = << >>
TheValue(o) == o[1]

\* Constructor restoring everything but processedUrls
ConstructorForgettingUrls(existingState) ==
  LET state == IF IsNone(existingState) THEN EmptyState
               ELSE TheValue(existingState)
  IN  [ authorsMap        |-> NewMap(state.authorsMap),
        authorArticles    |-> NewMap(state.authorArticles),
        processedUrls     |-> << >>,
        processedProfiles |-> NewSet(state.processedProfiles),
        seenSlugs         |-> NewSet(state.seenSlugs) ]

\* Constructor restoring everything but seenSlugs
ConstructorForgettingSlugs(existingState) ==
  LET state == IF IsNone(existingState) THEN EmptyState
               ELSE TheValue(existingState)
  IN  [ authorsMap        |-> NewMap(state.authorsMap),
        authorArticles    |-> NewMap(state.authorArticles),
        processedUrls     |-> NewSet(state.processedUrls),
        processedProfiles |-> NewSet(state.processedProfiles),
        seenSlugs         |-> << >> ]

\* constructor(existingState): const state = existingState || {}
\* (existingState is null or an exported state)
Constructor(existingState) ==
  LET state == IF IsNone(existingState) THEN EmptyState
               ELSE TheValue(existingState)
  IN  [ authorsMap        |-> NewMap(state.authorsMap),
        authorArticles    |-> NewMap(state.authorArticles),
        processedUrls     |-> NewSet(state.processedUrls),
        processedProfiles |-> NewSet(state.processedProfiles),
        seenSlugs         |-> NewSet(state.seenSlugs) ]

\* what a caller without a stored state passes to the constructor
NoStateArguments == { "undefined", "null" }

\* whether new HackerNoonScraper(arg) throws: constructor(existingState = {})
\* of the browser scraper takes the default for undefined only and reads
\* null.authorsMap; const state = existingState || {} replaces both
ConstructorThrows(scraper, arg) == scraper = "browser" /\ arg = "null"

\* exportState()
ExportState(sc) ==
  [ processedUrls     |-> ArrayFromSet(sc.processedUrls),
    processedProfiles |-> ArrayFromSet(sc.processedProfiles),
    seenSlugs         |-> ArrayFromSet(sc.seenSlugs),
    authorsMap        |-> ArrayFromMap(sc.authorsMap),
    authorArticles    |-> ArrayFromMap(sc.authorArticles) ]

\* JSON.parse(JSON.stringify(author)): a Set member becomes {}
JsonAuthor(a) == [ a EXCEPT !.keywords = KwPlainObject ]

\* JSON.parse(JSON.stringify(state)) of an exported state
JsonState(st) ==
  [ st EXCEPT !.authorsMap =
      [ i \in 1..Len(st.authorsMap) |->
          << st.authorsMap[i][1], JsonAuthor(st.authorsMap[i][2]) >> ] ]

----------------------------------------------------------------------------
(* Frontier Collector.                                                     *)

\* if (slug.includes('/') || slug.startsWith('u-') || slug.startsWith('tagged-'))
IsNonArticleSlug(slug) ==
  Includes(slug, "/") \/ StartsWith(slug, "u-") \/ StartsWith(slug, "tagged-")

SlugA == "how-i-built-my-saas-to-10k-mrr"
SlugB == "vibe-coding-a-weekend-project"

\* the <loc> entries a sitemap may list: two articles and a profile page
Locs == { UrlOfSlug(SlugA), UrlOfSlug(SlugB), UrlOfSlug("u-jdoe") }

\* const slug = url.replace(HACKERNOON_BASE + '/', ''), for each <loc>
LocSlug == Tabulate(Locs, SlugOfUrl)

\* the "Skip non-article URLs" test, for each <loc>
LocSkipped == Tabulate(Locs, LAMBDA u : IsNonArticleSlug(LocSlug[u]))

\* AlreadyCollected looking at processedUrls only
AlreadyCollectedByUrlOnly(seen, processed, slug, url) == SetHas(processed, url)

\* if (this.seenSlugs.has(slug)) continue;
\* if (this.processedUrls.has(url)) continue;
AlreadyCollected(seen, processed, slug, url) ==
  SetHas(seen, slug) \/ SetHas(processed, url)

\* CommitSlug forgetting to add the slug
CommitSlugNever(seen, slug) == seen

\* this.seenSlugs.add(slug)
CommitSlug(seen, slug) == SetAdd(seen, slug)

\* CapReached one reference early
CapReachedEarly(articles, maxArticles) == Len(articles) + 1 >= maxArticles

\* if (articles.length >= maxArticles) break;
CapReached(articles, maxArticles) == Len(articles) >= maxArticles

\* the state of the loop of collectFromSitemap: the next <loc>, the slugs seen
\* and the references pushed so far
RECURSIVE SitemapLoop(_, _, _, _, _, _)
SitemapLoop(locs, i, seen, processed, articles, maxArticles) ==
  IF i > Len(locs) THEN [ seenSlugs |-> seen, articles |-> articles ]
  ELSE
    LET url  == locs[i]
        slug == LocSlug[url]
    IN  IF LocSkipped[url] \/ AlreadyCollected(seen, processed, slug, url)
        THEN SitemapLoop(locs, i + 1, seen, processed, articles, maxArticles)
        ELSE LET seen2 == CommitSlug(seen, slug)
                 arts2 == Append(articles, [ slug |-> slug, url |-> url ])
             IN  IF CapReached(arts2, maxArticles)
                 THEN [ seenSlugs |-> seen2, articles |-> arts2 ]
                 ELSE SitemapLoop(locs, i + 1, seen2, processed, arts2, maxArticles)

CollectFromSitemapUnguarded(sc, html, maxArticles) ==
  IF IsNone(html)
  THEN [ sc |-> sc, articles |-> << [ slug |-> "undefined", url |-> "undefined" ] >> ]
  ELSE LET r == SitemapLoop(TheValue(html), 1, sc.seenSlugs, sc.processedUrls,
                            << >>, maxArticles)
       IN  [ sc |-> [ sc EXCEPT !.seenSlugs = r.seenSlugs ],
             articles |-> r.articles ]

\* collectFromSitemap(sitemapUrl, maxArticles): html is null (<< >>) when the
\* fetch failed, else the <loc> URLs the regular expression matches, in order
CollectFromSitemap(sc, html, maxArticles) ==
  IF IsNone(html) THEN [ sc |-> sc, articles |-> << >> ]
  ELSE LET r == SitemapLoop(TheValue(html), 1, sc.seenSlugs, sc.processedUrls,
                            << >>, maxArticles)
       IN  [ sc |-> [ sc EXCEPT !.seenSlugs = r.seenSlugs ],
             articles |-> r.articles ]

RECURSIVE SplitNonEmpty(_, _, _)
\* href.split('/').filter(Boolean): the non-empty segments of s; cur is the
\* segment being read
SplitNonEmpty(s, sep, cur) ==
  IF s = "" THEN (IF cur = "" THEN << >> ELSE << cur >>)
  ELSE IF SubSeq(s, 1, 1) = sep
       THEN (IF cur = "" THEN << >> ELSE << cur >>)
            \o SplitNonEmpty(SubSeq(s, 2, Len(s)), sep, "")
       ELSE SplitNonEmpty(SubSeq(s, 2, Len(s)), sep, cur \o SubSeq(s, 1, 1))

\* const skip = [...]
SkipPrefixes ==
  << "/u/", "/tagged/", "/search", "/signup", "/login", "/company/", "/write" >>

\* the title extractArticles gives an anchor: its text, or the heading of the
\* enclosing block when that is longer
AnchorTitle(a) ==
  IF a.heading # "" /\ Len(a.heading) > Len(a.text) THEN a.heading ELSE a.text

\* whether the forEach body of extractArticles gets past the href tests
AnchorIsCandidate(a) ==
  /\ StartsWith(a.href, "/")
  /\ Len(a.href) >= 30
  /\ ~ \E i \in 1..Len(SkipPrefixes) : Includes(a.href, SkipPrefixes[i])
  /\ Includes(a.href, "-")
  /\ Len(SplitNonEmpty(a.href, "/", "")) = 1

RECURSIVE ExtractLoop(_, _, _, _)
ExtractLoop(anchors, i, seen, results) ==
  IF i > Len(anchors) THEN results
  ELSE
    LET a == anchors[i]
    IN  IF ~AnchorIsCandidate(a)
        THEN ExtractLoop(anchors, i + 1, seen, results)
        ELSE
          LET slug == SplitNonEmpty(a.href, "/", "")[1]
              title == AnchorTitle(a)
          IN  IF slug \in seen
              THEN ExtractLoop(anchors, i + 1, seen, results)
              ELSE ExtractLoop(anchors, i + 1, seen \cup { slug },
                     IF Len(title) >= 15 /\ Len(title) <= 250
                     THEN Append(results,
                            [ slug |-> slug, title |-> title,
                              url |-> "https://hackernoon.com/" \o slug ])
                     ELSE results)

\* extractArticles(): the anchors of the page in document order
ExtractArticles(anchors) == ExtractLoop(anchors, 1, { }, << >>)

RECURSIVE FilterLoop(_, _, _, _, _)
\* articles.filter(a => { ...; this.seenSlugs.add(a.slug); return true; })
FilterLoop(arts, i, seen, processed, kept) ==
  IF i > Len(arts) THEN [ seenSlugs |-> seen, articles |-> kept ]
  ELSE IF AlreadyCollected(seen, processed, arts[i].slug, arts[i].url)
       THEN FilterLoop(arts, i + 1, seen, processed, kept)
       ELSE FilterLoop(arts, i + 1, CommitSlug(seen, arts[i].slug), processed,
                       Append(kept, arts[i]))

\* articles.slice(0, n)
\* Slice0 keeping the last n entries instead of the first
Slice0Newest(arr, n) ==
  SubSeq(arr, IF n < Len(arr) THEN Len(arr) - n + 1 ELSE 1, Len(arr))

\* arr.slice(0, n)
Slice0(arr, n) == SubSeq(arr, 1, IF n < Len(arr) THEN n ELSE Len(arr))

\* the body shared by collectFromSearch and collectFromTag of the browser
\* scraper: extracted is null (<< >>) when safeGoto failed, else what
\* extractArticles() gave for the page
CollectFromListing(sc, extracted, keyword, source, maxArticles) ==
  IF IsNone(extracted) THEN [ sc |-> sc, articles |-> << >> ]
  ELSE LET r == FilterLoop(TheValue(extracted), 1, sc.seenSlugs,
                           sc.processedUrls, << >>)
           cut == Slice0(r.articles, maxArticles)
       IN  [ sc |-> [ sc EXCEPT !.seenSlugs = r.seenSlugs ],
             articles |-> [ i \in 1..Len(cut) |->
                              [ slug |-> cut[i].slug, title |-> cut[i].title,
                                url |-> cut[i].url, keyword |-> keyword,
                                source |-> source ] ] ]

\* collectFromSearch(keyword, scrollCount, maxArticles)
CollectFromSearch(sc, extracted, keyword, maxArticles) ==
  CollectFromListing(sc, extracted, keyword, "search", maxArticles)

\* collectFromTag(tag, scrollCount, maxArticles)
CollectFromTag(sc, extracted, tag, maxArticles) ==
  CollectFromListing(sc, extracted, tag, "tag", maxArticles)

----------------------------------------------------------------------------
(* cleanName.                                                              *)

WordChars == "ABCDEFGHIJKLMNOPQRSTUVWXYZabcdefghijklmnopqrstuvwxyz0123456789_"

\* a character of the class [\w-]
IsHandleChar(c) ==
  c = "-" \/ \E i \in 1..Len(WordChars) : SubSeq(WordChars, i, i) = c

RECURSIVE DropLeadingSpaces(_)
DropLeadingSpaces(s) ==
  IF s # "" /\ SubSeq(s, 1, 1) = " "
  THEN DropLeadingSpaces(SubSeq(s, 2, Len(s))) ELSE s

RECURSIVE DropTrailingSpaces(_)
DropTrailingSpaces(s) ==
  IF s # "" /\ SubSeq(s, Len(s), Len(s)) = " "
  THEN DropTrailingSpaces(SubSeq(s, 1, Len(s) - 1)) ELSE s

\* String.prototype.trim
Trim(s) == DropTrailingSpaces(DropLeadingSpaces(s))

\* .replace(/^by\s*/i, '')
StripBy(s) ==
  IF Len(s) >= 2 /\ ToLowerCase(SubSeq(s, 1, 2)) = "by"
  THEN DropLeadingSpaces(SubSeq(s, 3, Len(s))) ELSE s

RECURSIVE DropHandleChars(_)
DropHandleChars(s) ==
  IF s # "" /\ IsHandleChar(SubSeq(s, 1, 1))
  THEN DropHandleChars(SubSeq(s, 2, Len(s))) ELSE s

RECURSIVE RemoveMentions(_)
\* .replace(/@[\w-]+/g, '')
RemoveMentions(s) ==
  IF s = "" THEN ""
  ELSE IF SubSeq(s, 1, 1) = "@" /\ Len(s) >= 2 /\ IsHandleChar(SubSeq(s, 2, 2))
       THEN RemoveMentions(DropHandleChars(SubSeq(s, 2, Len(s))))
       ELSE SubSeq(s, 1, 1) \o RemoveMentions(SubSeq(s, 2, Len(s)))

RECURSIVE CollapseSpaces(_)
\* .replace(/\s+/g, ' ')
CollapseSpaces(s) ==
  IF s = "" THEN ""
  ELSE IF SubSeq(s, 1, 1) = " "
       THEN " " \o CollapseSpaces(DropLeadingSpaces(s))
       ELSE SubSeq(s, 1, 1) \o CollapseSpaces(SubSeq(s, 2, Len(s)))

\* cleanName(raw)
CleanName(raw) ==
  IF Falsy(raw) THEN ""
  ELSE Trim(CollapseSpaces(RemoveMentions(StripBy(raw))))

----------------------------------------------------------------------------
(* Content Extractor of the sitemap scraper.                               *)

\* AlreadyProcessed never answering yes
AlreadyProcessedNever(sc, url) == FALSE

\* if (this.processedUrls.has(articleUrl)) return null;
AlreadyProcessed(sc, url) == SetHas(sc.processedUrls, url)

\* MarkProcessed forgetting the mark
MarkProcessedNever(sc, url) == sc

\* this.processedUrls.add(articleUrl);
MarkProcessed(sc, url) ==
  [ sc EXCEPT !.processedUrls = SetAdd(sc.processedUrls, url) ]

\* matchesKeywords(title, excerpt, tags)
MatchesKeywords(title, excerpt, tags) ==
  LET text == ToLowerCase(title \o " " \o excerpt \o " " \o Join(tags, " "))
  IN  \/ \E i \in 1..Len(SEARCH_KEYWORDS) :
            Includes(text, ToLowerCase(SEARCH_KEYWORDS[i]))
      \/ \E i \in 1..Len(TAG_KEYWORDS) :
            Includes(text, ReplaceAll(TAG_KEYWORDS[i], "-", " "))

\* whether a call to action is taken as the author's website
IsWebCta(cta) ==
  /\ ~Falsy(cta.url) /\ cta.active
  /\ ~Includes(cta.url, "hackernoon.com")
  /\ ~Includes(cta.url, "twitter.com")
  /\ ~Includes(cta.url, "linkedin.com")
  /\ ~Includes(cta.url, "github.com")

\* the website getArticleData derives from the profile
ProfileWebsite(profile) ==
  LET ctas == profile.callToActions
      web  == IF \E i \in 1..Len(ctas) : IsWebCta(ctas[i])
              THEN ctas[CHOOSE i \in 1..Len(ctas) :
                          /\ IsWebCta(ctas[i])
                          /\ \A j \in 1..(i - 1) : ~IsWebCta(ctas[j])].url
              ELSE ""
  IN  IF Falsy(web) /\ ~Falsy(profile.adLink)
         /\ ~Includes(profile.adLink, "hackernoon")
      THEN profile.adLink ELSE web

\* the matchedKeywords array getArticleData builds, before [...new Set(...)]
MatchedKeywordList(title, excerpt, tags) ==
  LET text == ToLowerCase(title \o " " \o excerpt)
      InTags(t) == \E i \in 1..Len(TAG_KEYWORDS) : TAG_KEYWORDS[i] = t
  IN  SelectSeq(SEARCH_KEYWORDS, LAMBDA kw : Includes(text, ToLowerCase(kw)))
      \o SelectSeq(tags, InTags)

ParseArticleUnfiltered(props, articleUrl) ==
  LET profile == props.profile
  IN  IF Falsy(profile.handle) THEN None
      ELSE Some([ handle |-> profile.handle,
                  name |-> CleanName(OrElse(profile.displayName, profile.handle)),
                  profileUrl |-> HACKERNOON_BASE \o "/u/" \o profile.handle,
                  bio |-> OrElse(profile.bio, ""),
                  website |-> ProfileWebsite(profile),
                  articleTitle |-> props.title,
                  articleUrl |-> articleUrl,
                  matchedKeywords |->
                    ArrayFromSet(NewSet(MatchedKeywordList(props.title, props.excerpt,
                                                           props.tags))) ])

\* the part of getArticleData after the page was fetched and its
\* __NEXT_DATA__ parsed: props is pageProps.data; null (<< >>) or the data
ParseArticle(props, articleUrl) ==
  LET profile == props.profile
      title   == props.title
      excerpt == props.excerpt
      tags    == props.tags
  IN  IF ~MatchesKeywords(title, excerpt, tags) THEN None
      ELSE IF Falsy(profile.handle) THEN None
      ELSE Some([ handle |-> profile.handle,
                  name |-> CleanName(OrElse(profile.displayName, profile.handle)),
                  profileUrl |-> HACKERNOON_BASE \o "/u/" \o profile.handle,
                  bio |-> OrElse(profile.bio, ""),
                  website |-> ProfileWebsite(profile),
                  articleTitle |-> title,
                  articleUrl |-> articleUrl,
                  matchedKeywords |->
                    ArrayFromSet(NewSet(MatchedKeywordList(title, excerpt, tags))) ])

----------------------------------------------------------------------------
(* Author Merger of the sitemap scraper (the loop body of scrape, phase 2). *)

RECURSIVE AddAll(_, _)
\* data.matchedKeywords.forEach(kw => existing.keywords.add(kw))
AddAll(set, arr) ==
  IF arr = << >> THEN set
  ELSE SetAdd(AddAll(set, SubSeq(arr, 1, Len(arr) - 1)), arr[Len(arr)])

\* this.authorArticles.get(handle).push({...}), after the array was created
\* when the handle had none
PushArticle(authorArticles, data) ==
  LET old == IF MapHas(authorArticles, data.handle)
             THEN MapGet(authorArticles, data.handle) ELSE << >>
  IN  MapSet(authorArticles, data.handle,
             Append(old, [ title |-> data.articleTitle, url |-> data.articleUrl,
                           keywords |-> data.matchedKeywords ]))

\* the author object created on first sight of a handle
NewAuthor(data) ==
  [ handle |-> data.handle, name |-> data.name, profileUrl |-> data.profileUrl,
    bio |-> data.bio, website |-> data.website,
    keywords |-> KwSet(NewSet(data.matchedKeywords)),
    twitter |-> Undefined, linkedin |-> Undefined, github |-> Undefined ]

\* forEach over the new keywords, each added to the stored keywords; with no
\* new keyword the stored member is not touched
KwAddAll(kw, arr) ==
  IF arr = << >> THEN kw ELSE KwSet(AddAll(kw.items, arr))

\* UpdateAuthor with the stored keyword set replaced by the new keywords
\* instead of united with them
UpdateAuthorReplacing(existing, data) ==
  [ existing EXCEPT
      !.keywords = KwSet(NewSet(data.matchedKeywords)),
      !.website = IF ~Falsy(data.website) /\ Falsy(existing.website)
                  THEN data.website ELSE existing.website ]

\* UpdateAuthor taking the website of every observation
UpdateAuthorOverwriting(existing, data) ==
  [ existing EXCEPT
      !.keywords = KwAddAll(existing.keywords, data.matchedKeywords),
      !.website = data.website ]

\* the else branch of the merge: union of the keywords, website filled when
\* empty
UpdateAuthor(existing, data) ==
  [ existing EXCEPT
      !.keywords = KwAddAll(existing.keywords, data.matchedKeywords),
      !.website = IF ~Falsy(data.website) /\ Falsy(existing.website)
                  THEN data.website ELSE existing.website ]

\* existing.keywords.add is not a function: the first callback of forEach
\* throws a TypeError when keywords is the plain object JSON left
MergeThrows(sc, data) ==
  /\ MapHas(sc.authorsMap, data.handle)
  /\ ~MapGet(sc.authorsMap, data.handle).keywords.isSet
  /\ data.matchedKeywords # << >>

\* if (data?.handle) { ... }: the state after the body, or after the part of
\* it that ran before the TypeError
MergeArticle(sc, data) ==
  LET pushed == [ sc EXCEPT !.authorArticles = PushArticle(sc.authorArticles, data) ]
  IN  IF ~MapHas(sc.authorsMap, data.handle)
      THEN [ pushed EXCEPT !.authorsMap =
               MapSet(sc.authorsMap, data.handle, NewAuthor(data)) ]
      ELSE IF MergeThrows(sc, data) THEN pushed
      ELSE [ pushed EXCEPT !.authorsMap =
               MapSet(sc.authorsMap, data.handle,
                      UpdateAuthor(MapGet(sc.authorsMap, data.handle), data)) ]

----------------------------------------------------------------------------
(* Profile Enricher of the sitemap scraper.                                *)

\* the substrings that disqualify a link as the generic website
NotWebsite ==
  << "hackernoon", "twitter", "x.com", "linkedin", "github", "facebook",
     "youtube", "instagram", "medium" >>

IsTwitterLink(href) ==
  LET h == ToLowerCase(href)
  IN  (Includes(h, "twitter.com/") \/ Includes(h, "x.com/"))
      /\ ~Includes(h, "hackernoon")

IsLinkedinLink(href) == Includes(ToLowerCase(href), "linkedin.com/")

IsGithubLink(href) ==
  LET h == ToLowerCase(href)
  IN  Includes(h, "github.com/") /\ ~Includes(h, "hackernoon")

IsWebsiteLink(href) ==
  LET h == ToLowerCase(href)
  IN  /\ StartsWith(href, "http")
      /\ ~ \E i \in 1..Len(NotWebsite) : Includes(h, NotWebsite[i])

\* the first link, in document order, that Test accepts; null when none does
FirstLink(links, Test(_)) ==
  IF \E i \in 1..Len(links) : Test(links[i])
  THEN links[CHOOSE i \in 1..Len(links) :
               Test(links[i]) /\ \A j \in 1..(i - 1) : ~Test(links[j])]
  ELSE Null

\* the part of getProfileSocial after the page was fetched: page.links are the
\* href attributes of a[href] in document order, page.displayName the name in
\* __NEXT_DATA__ (<< >> when the page holds no parsable data)
ParseProfile(page) ==
  [ twitter  |-> FirstLink(page.links, IsTwitterLink),
    linkedin |-> FirstLink(page.links, IsLinkedinLink),
    github   |-> FirstLink(page.links, IsGithubLink),
    website  |-> FirstLink(page.links, IsWebsiteLink),
    name     |-> IF IsNone(page.displayName) THEN ""
                 ELSE CleanName(OrElse(TheValue(page.displayName), "")) ]

\* EnrichAuthor assigning the website like the platform links
EnrichAuthorOverwriting(a, social) ==
  [ a EXCEPT
      !.twitter  = OrElse(social.twitter, ""),
      !.linkedin = OrElse(social.linkedin, ""),
      !.github   = OrElse(social.github, ""),
      !.website  = OrElse(social.website, "") ]

\* if (social) { ... } of phase 3, on the author object a
EnrichAuthor(a, social) ==
  [ a EXCEPT
      !.twitter  = OrElse(social.twitter, ""),
      !.linkedin = OrElse(social.linkedin, ""),
      !.github   = OrElse(social.github, ""),
      !.website  = IF ~Falsy(social.website) /\ Falsy(a.website)
                   THEN social.website ELSE a.website,
      !.name     = IF ~Falsy(social.name)
                      /\ Len(social.name) > (IF Falsy(a.name) THEN 0 ELSE Len(a.name))
                   THEN social.name ELSE a.name ]

\* AuthorsNeedingSocial stopping after the first author it picks
AuthorsNeedingSocialFirstOnly(sc) ==
  LET picked == SelectSeq(MapValues(sc.authorsMap),
                          LAMBDA a : /\ Falsy(a.twitter) /\ Falsy(a.linkedin)
                                     /\ ~SetHas(sc.processedProfiles, a.profileUrl))
  IN  [ i \in 1..(IF picked = << >> THEN 0 ELSE 1) |-> picked[i].handle ]

\* authors.filter(a => !a.twitter && !a.linkedin && !processedProfiles.has(..)):
\* the handles of the authors phase 3 visits, in map order
AuthorsNeedingSocial(sc) ==
  LET authors == MapValues(sc.authorsMap)
      Needs(a) == /\ Falsy(a.twitter) /\ Falsy(a.linkedin)
                  /\ ~SetHas(sc.processedProfiles, a.profileUrl)
      picked == SelectSeq(authors, Needs)
  IN  [ i \in 1..Len(picked) |-> picked[i].handle ]

----------------------------------------------------------------------------
(* Result Finalizer.                                                       *)

\* Array.from(a.keywords || []): a plain object without length gives []
KeywordArray(kw) == IF kw.isSet THEN ArrayFromSet(kw.items) ELSE << >>

\* the record authors.map builds for the author object a
FinalAuthor(sc, a) ==
  LET arts == IF MapHas(sc.authorArticles, a.handle)
              THEN MapGet(sc.authorArticles, a.handle) ELSE << >>
  IN  [ handle |-> a.handle,
        name |-> IF ~Falsy(a.name) /\ Len(a.name) >= 2 THEN a.name ELSE a.handle,
        profileUrl |-> a.profileUrl,
        bio |-> OrElse(a.bio, ""),
        twitter |-> OrElse(a.twitter, ""),
        linkedin |-> OrElse(a.linkedin, ""),
        github |-> OrElse(a.github, ""),
        website |-> OrElse(a.website, ""),
        sampleArticles |-> Slice0(arts, SampleCap),
        matchedKeywords |-> KeywordArray(a.keywords) ]

\* finalAuthors
FinalAuthors(sc) ==
  [ i \in 1..Len(sc.authorsMap) |-> FinalAuthor(sc, sc.authorsMap[i][2]) ]

CountWhere(arr, Test(_)) == Len(SelectSeq(arr, Test))

\* the value scrape() returns
ScrapeResult(sc, newAuthorsCount, articlesProcessed, matchedCount) ==
  LET fin == FinalAuthors(sc)
  IN  [ authors |-> fin,
        stats |-> [ totalAuthors |-> Len(fin),
                    newAuthorsThisRun |-> newAuthorsCount,
                    withTwitter  |-> CountWhere(fin, LAMBDA a : ~Falsy(a.twitter)),
                    withLinkedIn |-> CountWhere(fin, LAMBDA a : ~Falsy(a.linkedin)),
                    withGitHub   |-> CountWhere(fin, LAMBDA a : ~Falsy(a.github)),
                    withWebsite  |-> CountWhere(fin, LAMBDA a : ~Falsy(a.website)),
                    articlesProcessed |-> articlesProcessed,
                    articlesMatched |-> matchedCount,
                    totalArticlesProcessed |-> Len(sc.processedUrls) ],
        state |-> ExportState(sc) ]

----------------------------------------------------------------------------
(* Content Extractor and Author Merger of the browser scraper.             *)

\* the text of s before the first occurrence of the character c
RECURSIVE UpTo(_, _)
UpTo(s, c) ==
  IF s = "" \/ SubSeq(s, 1, 1) = c THEN ""
  ELSE SubSeq(s, 1, 1) \o UpTo(SubSeq(s, 2, Len(s)), c)

\* href.replace('/u/', '').split('?')[0].split('/')[0]
HandleOfHref(href) == UpTo(UpTo(RemoveFirst(href, "/u/"), "?"), "/")

UsableHandle(h) == h # "" /\ Len(h) > 1 /\ Len(h) < 50

\* the callback getAuthorFromArticle evaluates in the page: page.h1 is the
\* text of the first h1, page.userLinks the a[href^="/u/"] in document order
AuthorFromPage(page) ==
  LET links == page.userLinks
      Good(l) == UsableHandle(HandleOfHref(l.href))
  IN  IF \E i \in 1..Len(links) : Good(links[i])
      THEN LET l == links[CHOOSE i \in 1..Len(links) :
                        Good(links[i]) /\ \A j \in 1..(i - 1) : ~Good(links[j])]
               handle == HandleOfHref(l.href)
           IN  Some([ handle |-> handle,
                      name |-> OrElse(Trim(l.text), handle),
                      profileUrl |-> "https://hackernoon.com/u/" \o handle,
                      title |-> Trim(page.h1) ])
      ELSE None

\* this.authorsMap.get(handle).keywords.add(article.keyword) throws a
\* TypeError when keywords is the plain object JSON left
BrowserMergeThrows(sc, author) ==
  /\ MapHas(sc.authorsMap, author.handle)
  /\ ~MapGet(sc.authorsMap, author.handle).keywords.isSet

\* if (author?.handle) { ... } of the browser scraper's scrape
BrowserMerge(sc, author, article) ==
  LET old == IF MapHas(sc.authorArticles, author.handle)
             THEN MapGet(sc.authorArticles, author.handle) ELSE << >>
      pushed == [ sc EXCEPT !.authorArticles =
                    MapSet(sc.authorArticles, author.handle,
                           Append(old, [ title |-> OrElse(author.title, article.title),
                                         url |-> article.url,
                                         keyword |-> article.keyword ])) ]
  IN  IF ~MapHas(sc.authorsMap, author.handle)
      THEN [ pushed EXCEPT !.authorsMap =
               MapSet(sc.authorsMap, author.handle,
                 [ handle |-> author.handle, name |-> CleanName(author.name),
                   profileUrl |-> author.profileUrl,
                   bio |-> Undefined, website |-> Undefined,
                   keywords |-> KwSet(NewSet(<< article.keyword >>)),
                   twitter |-> Undefined, linkedin |-> Undefined,
                   github |-> Undefined ]) ]
      ELSE IF BrowserMergeThrows(sc, author) THEN pushed
      ELSE LET existing == MapGet(sc.authorsMap, author.handle)
           IN  [ pushed EXCEPT !.authorsMap =
                   MapSet(sc.authorsMap, author.handle,
                     [ existing EXCEPT !.keywords =
                         KwSet(SetAdd(existing.keywords.items, article.keyword)) ]) ]

----------------------------------------------------------------------------
(* Profile Enricher: the guard and the mark of getProfileSocial and of     *)
(* getProfile, and the browser scraper's getProfile and phase 3.           *)

\* ProfileProcessed never answering yes
ProfileProcessedNever(sc, profileUrl) == FALSE

\* if (this.processedProfiles.has(profileUrl)) return null;
ProfileProcessed(sc, profileUrl) == SetHas(sc.processedProfiles, profileUrl)

\* MarkProfile forgetting the mark
MarkProfileNever(sc, profileUrl) == sc

\* this.processedProfiles.add(profileUrl);
MarkProfile(sc, profileUrl) ==
  [ sc EXCEPT !.processedProfiles = SetAdd(sc.processedProfiles, profileUrl) ]

\* .replace(/^by\s+/i, '')
StripByAndSpaces(s) ==
  IF Len(s) >= 3 /\ ToLowerCase(SubSeq(s, 1, 2)) = "by" /\ SubSeq(s, 3, 3) = " "
  THEN DropLeadingSpaces(SubSeq(s, 3, Len(s))) ELSE s

RECURSIVE DropWordChars(_)
\* the text after the leading characters of the class \w
DropWordChars(s) ==
  IF s # "" /\ SubSeq(s, 1, 1) # "-" /\ IsHandleChar(SubSeq(s, 1, 1))
  THEN DropWordChars(SubSeq(s, 2, Len(s))) ELSE s

RECURSIVE RemoveWordMentions(_)
\* .replace(/@\w+/g, '')
RemoveWordMentions(s) ==
  IF s = "" THEN ""
  ELSE IF SubSeq(s, 1, 1) = "@" /\ DropWordChars(SubSeq(s, 2, Len(s))) # SubSeq(s, 2, Len(s))
       THEN RemoveWordMentions(DropWordChars(SubSeq(s, 2, Len(s))))
       ELSE SubSeq(s, 1, 1) \o RemoveWordMentions(SubSeq(s, 2, Len(s)))

\* the website test of getProfile: the list of getProfileSocial and
\* 'proofofusefulness'
IsBrowserWebsiteLink(href) ==
  IsWebsiteLink(href) /\ ~Includes(ToLowerCase(href), "proofofusefulness")

\* the callback getProfile evaluates in the page: page.h1 is the text of the
\* first h1 ('' when there is none), page.description the content of the
\* description meta tag, page.links the href of each a[href] in document order
EvaluateProfile(page) ==
  [ name   |-> Trim(RemoveWordMentions(StripByAndSpaces(Trim(page.h1)))),
    bio    |-> page.description,
    social |-> [ twitter  |-> FirstLink(page.links, IsTwitterLink),
                 linkedin |-> FirstLink(page.links, IsLinkedinLink),
                 github   |-> FirstLink(page.links, IsGithubLink),
                 website  |-> FirstLink(page.links, IsBrowserWebsiteLink) ] ]

\* if (profile) { ... } of the browser scraper's phase 3, on the author a
BrowserEnrichAuthor(a, profile) ==
  [ a EXCEPT
      !.bio      = OrElse(Trim(CollapseSpaces(profile.bio)), ""),
      !.twitter  = OrElse(profile.social.twitter, ""),
      !.linkedin = OrElse(profile.social.linkedin, ""),
      !.github   = OrElse(profile.social.github, ""),
      !.website  = OrElse(profile.social.website, ""),
      !.name     = IF ~Falsy(profile.name)
                      /\ Len(profile.name) > (IF Falsy(a.name) THEN 0 ELSE Len(a.name))
                   THEN CleanName(profile.name) ELSE a.name ]

\* authors.filter(a => !this.processedProfiles.has(a.profileUrl)): the handles
\* of the authors the browser scraper's phase 3 visits, in map order
AuthorsNeedingProfile(sc) ==
  LET picked == SelectSeq(MapValues(sc.authorsMap),
                          LAMBDA a : ~SetHas(sc.processedProfiles, a.profileUrl))
  IN  [ i \in 1..Len(picked) |-> picked[i].handle ]

----------------------------------------------------------------------------
(* The first scraper (unnamed/part_001): no state carried between runs,    *)
(* profiles fetched for every author, each author object finalized in      *)
(* place.                                                                  *)

\* arts.slice(0, 3)
LegacySampleCap == 3

\* an author object after delete a.keywords
KwDeleted == [ isSet |-> FALSE, items |-> << >>, deleted |-> TRUE ]

\* the rest of the loop body after the profile was applied: sampleArticles
\* and matchedKeywords written to the author object, a short name replaced
\* by the handle, keywords deleted
LegacyFinalizeAuthor(sc, a) ==
  LET arts == IF MapHas(sc.authorArticles, a.handle)
              THEN MapGet(sc.authorArticles, a.handle) ELSE << >>
  IN  [ a EXCEPT !.name = IF Falsy(a.name) \/ Len(a.name) < 2
                          THEN a.handle ELSE a.name,
                 !.keywords = KwDeleted ]
      @@ [ sampleArticles |-> Slice0(arts, LegacySampleCap),
           matchedKeywords |-> ArrayFromSet(a.keywords.items) ]

\* the value the first scraper's scrape() returns
LegacyScrapeResult(sc, articlesProcessed) ==
  LET authors == MapValues(sc.authorsMap)
  IN  [ authors |-> authors,
        stats |-> [ totalAuthors |-> Len(authors),
                    withTwitter  |-> CountWhere(authors, LAMBDA a : ~Falsy(a.twitter)),
                    withLinkedIn |-> CountWhere(authors, LAMBDA a : ~Falsy(a.linkedin)),
                    withGitHub   |-> CountWhere(authors, LAMBDA a : ~Falsy(a.github)),
                    withWebsite  |-> CountWhere(authors, LAMBDA a : ~Falsy(a.website)),
                    articlesProcessed |-> articlesProcessed ] ]

\* the value the browser scraper's scrape() returns: that of the sitemap
\* scraper without articlesMatched
BrowserScrapeResult(sc, newAuthorsCount, articlesProcessed) ==
  LET r == ScrapeResult(sc, newAuthorsCount, articlesProcessed, 0)
  IN  [ authors |-> r.authors,
        stats |-> [ k \in DOMAIN r.stats \ { "articlesMatched" } |-> r.stats[k] ],
        state |-> r.state ]

----------------------------------------------------------------------------
(* The pages the site may serve (the inputs of the model).                 *)

\* the article URLs among the <loc> entries
ArticleUrls == { UrlOfSlug(SlugA), UrlOfSlug(SlugB) }

\* the <loc> entries of the sitemaps: the two articles in either order, one
\* of them listed twice, and a profile page among them
SitemapPages ==
  { << >>,
    << UrlOfSlug(SlugA), UrlOfSlug(SlugB) >>,
    << UrlOfSlug(SlugB), UrlOfSlug(SlugA) >>,
    << UrlOfSlug(SlugA), UrlOfSlug(SlugA), UrlOfSlug(SlugB) >>,
    << UrlOfSlug("u-jdoe"), UrlOfSlug(SlugB) >> }

\* what fetchPage(sitemapUrl) may give: null, or a sitemap of <loc> entries
SitemapResponses == { None } \cup { Some(l) : l \in SitemapPages }

\* anchors of a search or tag page: the two articles, the first one again
\* under a text too short for a title, and a link to a profile
AnchorA == [ href |-> "/" \o SlugA, text |-> "How I built my SaaS", heading |-> "" ]
AnchorB == [ href |-> "/" \o SlugB, text |-> "Read", heading |-> "Vibe coding a project" ]
AnchorAShort == [ href |-> "/" \o SlugA, text |-> "Read", heading |-> "" ]
AnchorProfile ==
  [ href |-> "/u/jdoe-writes-about-indie-hacking",
    text |-> "Jane Doe on indie hacking", heading |-> "" ]

\* the anchor lists of the listing pages
ListingPages ==
  { << AnchorA, AnchorB >>, << AnchorA, AnchorA >>,
    << AnchorAShort, AnchorA, AnchorB >>, << AnchorProfile, AnchorB >> }

\* what a listing page may give: null (safeGoto failed), or its anchors
ListingResponses == { None } \cup { Some(l) : l \in ListingPages }

\* the per-source caps callers pass
Caps == 1..MaxCap

JaneRich ==
  [ handle |-> "jdoe", displayName |-> "Jane Doe", bio |-> "X",
    callToActions |-> << [ url |-> "https://jane.dev", active |-> TRUE ] >>,
    adLink |-> "" ]
JaneBare ==
  [ handle |-> "jdoe", displayName |-> "", bio |-> "",
    callToActions |-> << >>, adLink |-> "" ]
AlSmith ==
  [ handle |-> "asmith", displayName |-> "by Al Smith @asmith", bio |-> "",
    callToActions |-> << [ url |-> "https://twitter.com/al", active |-> TRUE ] >>,
    adLink |-> "https://al.io" ]
NoProfile ==
  [ handle |-> "", displayName |-> "", bio |-> "",
    callToActions |-> << >>, adLink |-> "" ]

Props(t, g, p) == [ title |-> t, excerpt |-> "", tags |-> g, profile |-> p ]

\* pageProps.data of the article pages
ArticleProps ==
  { Props("Maker diary", << >>, JaneRich),
    Props("My SaaS story", << "indie-hackers" >>, JaneBare),
    Props("My SaaS story", << >>, AlSmith),
    Props("Cooking", << >>, AlSmith),
    Props("Cooking", << "indie-hackers" >>, AlSmith),
    Props("Maker diary", << >>, NoProfile) }

\* what fetching and parsing an article page may give: "fetch-failed"
\* (fetchPage returned null), "no-data" (no parsable __NEXT_DATA__), or the
\* page's data
ArticleResponses ==
  { [ kind |-> "fetch-failed" ], [ kind |-> "no-data" ] }
  \cup { [ kind |-> "page", props |-> d ] : d \in ArticleProps }

\* ParseArticle of each page, its articleUrl left to fill in
ParsedArticle == Tabulate(ArticleProps, LAMBDA d : ParseArticle(d, ""))

\* extractArticles() of each listing page
Extracted == Tabulate(ListingPages, ExtractArticles)

\* what the browser may show for an article: null (safeGoto failed or the
\* evaluation threw), or the page
BrowserArticlePages ==
  { None,
    Some([ h1 |-> "Maker diary", userLinks |-> << >> ]),
    Some([ h1 |-> "Maker diary",
           userLinks |-> << [ href |-> "/u/j", text |-> "J" ],
                            [ href |-> "/u/jdoe?ref=x", text |-> " Jane Doe " ] >> ]),
    Some([ h1 |-> "", userLinks |-> << [ href |-> "/u/jdoe/about", text |-> "" ] >> ]),
    Some([ h1 |-> "Al's notes", userLinks |-> << [ href |-> "/u/asmith", text |-> "by Al" ] >> ]) }

\* the callback of getAuthorFromArticle on each page the browser may show
PageAuthor ==
  Tabulate(BrowserArticlePages,
           LAMBDA p : IF IsNone(p) THEN None ELSE AuthorFromPage(TheValue(p)))

\* the references the browser scraper's extractor is handed
BrowserArticles ==
  { [ slug |-> SlugA, title |-> "How I built my SaaS", url |-> UrlOfSlug(SlugA),
      keyword |-> "maker", source |-> "search" ],
    [ slug |-> SlugB, title |-> "Vibe coding a project", url |-> UrlOfSlug(SlugB),
      keyword |-> "makers", source |-> "tag" ] }

----------------------------------------------------------------------------
(* State.                                                                  *)

VARIABLES
  variant,  \* the class called: "sitemap" or "browser"; "service" under Spec
  sc,       \* the scraper object: its two maps and three sets
  pc,       \* where the caller of the scraper stands
  cur,      \* the article reference or profile in flight
  call,     \* the last call made on the scraper, its arguments and its result
  hist,     \* history: what was returned, fetched, merged and observed so far
  svc,      \* the service process: whether it is up, and its module globals
  file,     \* the data file: null (absent) or what savePersistedData wrote
  run,      \* the locals of the POST /api/scrape request in flight
  obs       \* history of the service: last response, runs started, run start

svcVars == << svc, file, run, obs >>

vars == << variant, sc, pc, cur, call, hist, svc, file, run, obs >>

NoCall ==
  [ op |-> "none", source |-> "", content |-> None, cap |-> 0, url |-> "",
    resp |-> [ kind |-> "none" ], ret |-> << >>,
    repeat |-> FALSE, prevLen |-> 0, threw |-> FALSE ]

NoHist ==
  [ returned |-> { }, returnedAgain |-> { },   \* slugs in a returned reference
    fetched |-> { }, fetchedAgain |-> { },     \* URLs the extractor fetched
    merged |-> { }, mergedAgain |-> { },       \* URLs whose article was merged
    observed |-> { },                          \* <<handle, keyword>> merged
    profiles |-> { }, profilesAgain |-> { },   \* profile URLs fetched
    firstBio |-> { }, firstWebsite |-> { },    \* <<handle, first value seen>>
    articles |-> { } ]                         \* <<handle, article URL>> merged

NoArticle == [ slug |-> "", title |-> "", url |-> "", keyword |-> "", source |-> "" ]

\* let cachedResults = null; let lastScrapeTime = null; let scrapeInProgress =
\* false; let scraperState = null; let scrapeHistory = [];
Globals ==
  [ up |-> TRUE, cachedResults |-> None, lastScrapeTime |-> None,
    scrapeInProgress |-> FALSE, scraperState |-> None, scrapeHistory |-> << >> ]

\* fetches: whether the fetch of the last step of the run failed
AfterFetch(fetches, failedNow) == IF failedNow THEN "failed" ELSE "fine"

\* the locals of scrape() and of its caller: the cap asked for, the sitemaps
\* still to read, allArticles and the loop positions, the counters, and
\* whether the author objects and article arrays of the scraper are those of
\* the global scraperState; start is the state the scraper was constructed
\* from and fromFile whether that state was read from the data file
NoRun ==
  [ cap |-> 0, sitemaps |-> << >>, allArticles |-> << >>, i |-> 1,
    newAuthorsCount |-> 0, matchedCount |-> 0, needing |-> << >>, j |-> 1,
    aliased |-> FALSE, start |-> EmptyState, fromFile |-> FALSE,
    fetches |-> "fine" ]

\* response: the last response the service sent; runs: scrape requests
\* accepted so far; loaded: scraperState is what loadPersistedData read;
\* start, fromFile: those of the run that answered last; degraded: the last
\* fetch of that run had failed; latest: what the most recent successful
\* scrape since the last POST /api/reset returned; fresh: no scrape has
\* succeeded yet, or none since the last POST /api/reset; cleared: no scrape
\* has succeeded since the process started without a cached result or since
\* the cached result was last set to null
NoObs ==
  [ response |-> "none", runs |-> 0, loaded |-> FALSE,
    start |-> EmptyState, fromFile |-> FALSE, degraded |-> FALSE,
    latest |-> None, fresh |-> TRUE, cleared |-> TRUE ]

\* the slugs of a list of references, with the slugs listed more than once
SlugsOf(arts) == { arts[i].slug : i \in 1..Len(arts) }
SlugsTwiceIn(arts) ==
  { arts[i].slug : i \in { k \in 1..Len(arts) :
                             \E j \in 1..Len(arts) : j # k /\ arts[j].slug = arts[k].slug } }

\* hist after a collect call returned arts
Returned(h, arts) ==
  [ h EXCEPT !.returned = @ \cup SlugsOf(arts),
             !.returnedAgain = @ \cup (h.returned \cap SlugsOf(arts))
                                 \cup SlugsTwiceIn(arts) ]

\* hist after the extractor issued a fetch of url
Fetched(h, url) ==
  [ h EXCEPT !.fetched = @ \cup { url },
             !.fetchedAgain = @ \cup (h.fetched \cap { url }) ]

\* hist after the article of url was merged for handle with keywords kws
Merged(h, url, handle, kws) ==
  [ h EXCEPT !.merged = @ \cup { url },
             !.mergedAgain = @ \cup (h.merged \cap { url }),
             !.observed = @ \cup { << handle, kws[i] >> : i \in 1..Len(kws) } ]

----------------------------------------------------------------------------
(* Unit specification: the public methods of a scraper object, called in   *)
(* any order by a caller that awaits each call, with the loop body of      *)
(* scrape as the caller of the extractor.                                  *)

UnitInit ==
  /\ variant \in { "sitemap", "browser" }
  /\ sc = Constructor(None)
  /\ pc = "idle"
  /\ cur = NoArticle
  /\ call = NoCall
  /\ hist = NoHist
  /\ svc = Globals
  /\ file = None
  /\ run = NoRun
  /\ obs = NoObs

\* whether this collect call repeats the call before it: same method, same
\* source content and same cap, against the state the first call left
Repeats(source, content, cap) ==
  /\ call.op = "collect" /\ call.source = source
  /\ call.content = content /\ call.cap = cap

CollectCall(source, content, cap, r) ==
  /\ sc' = r.sc
  /\ call' = [ NoCall EXCEPT !.op = "collect", !.source = source,
                             !.content = content, !.cap = cap,
                             !.ret = r.articles,
                             !.repeat = Repeats(source, content, cap),
                             !.prevLen = IF Repeats(source, content, cap)
                                         THEN Len(call.ret) ELSE 0 ]
  /\ hist' = Returned(hist, r.articles)
  /\ UNCHANGED << variant, pc, cur, svcVars >>

\* await scraper.collectFromSitemap(url, cap)
UnitCollectFromSitemap ==
  /\ variant = "sitemap" /\ pc = "idle"
  /\ \E html \in SitemapResponses, cap \in Caps :
       CollectCall("sitemap", html, cap, CollectFromSitemap(sc, html, cap))

\* let articles = await this.extractArticles(), null when safeGoto failed
ExtractedFrom(page) ==
  IF IsNone(page) THEN None ELSE Some(Extracted[TheValue(page)])

\* await scraper.collectFromSearch(keyword, scrollCount, cap)
UnitCollectFromSearch ==
  /\ variant = "browser" /\ pc = "idle"
  /\ \E page \in ListingResponses, cap \in Caps :
       CollectCall("search", page, cap,
                   CollectFromSearch(sc, ExtractedFrom(page), "maker", cap))

\* await scraper.collectFromTag(tag, scrollCount, cap)
UnitCollectFromTag ==
  /\ variant = "browser" /\ pc = "idle"
  /\ \E page \in ListingResponses, cap \in Caps :
       CollectCall("tag", page, cap,
                   CollectFromTag(sc, ExtractedFrom(page), "makers", cap))

\* the extractor up to its first await: the guard, the mark, the fetch issued
ExtractorEnter(article) ==
  IF AlreadyProcessed(sc, article.url)
  THEN /\ call' = [ NoCall EXCEPT !.op = "extract", !.url = article.url,
                                  !.resp = [ kind |-> "skipped" ],
                                  !.ret = None ]
       /\ UNCHANGED << variant, sc, pc, cur, hist, svcVars >>
  ELSE /\ sc' = MarkProcessed(sc, article.url)
       /\ pc' = "fetching"
       /\ cur' = article
       /\ call' = [ NoCall EXCEPT !.op = "enter", !.url = article.url ]
       /\ hist' = Fetched(hist, article.url)
       /\ UNCHANGED << variant, svcVars >>

\* const data = await this.getArticleData(article.url): called
UnitGetArticleData ==
  /\ variant = "sitemap" /\ pc = "idle"
  /\ \E u \in ArticleUrls : ExtractorEnter([ NoArticle EXCEPT !.url = u ])

\* what getArticleData returns for a response
ArticleData(resp, url) ==
  IF resp.kind = "page" /\ ~IsNone(ParsedArticle[resp.props])
  THEN Some([ TheValue(ParsedArticle[resp.props]) EXCEPT !.articleUrl = url ])
  ELSE None

\* getArticleData returns and the loop body of scrape merges what it got
UnitArticleFetched ==
  /\ variant = "sitemap" /\ pc = "fetching"
  /\ \E resp \in ArticleResponses :
       LET data == ArticleData(resp, cur.url)
           d == TheValue(data)
       IN  /\ sc' = IF IsNone(data) THEN sc ELSE MergeArticle(sc, d)
           /\ call' = [ NoCall EXCEPT !.op = "extract", !.url = cur.url,
                          !.resp = resp, !.ret = data,
                          !.threw = ~IsNone(data) /\ MergeThrows(sc, d) ]
           /\ hist' = IF IsNone(data) \/ MergeThrows(sc, d) THEN hist
                      ELSE Merged(hist, cur.url, d.handle, d.matchedKeywords)
  /\ pc' = "idle"
  /\ cur' = NoArticle
  /\ UNCHANGED << variant, svcVars >>

\* const author = await this.getAuthorFromArticle(article): called
UnitGetAuthorFromArticle ==
  /\ variant = "browser" /\ pc = "idle"
  /\ \E a \in BrowserArticles : ExtractorEnter(a)

\* getAuthorFromArticle returns and the loop body of scrape merges
UnitAuthorFound ==
  /\ variant = "browser" /\ pc = "fetching"
  /\ \E page \in BrowserArticlePages :
       LET author == PageAuthor[page]
           a == TheValue(author)
       IN  /\ sc' = IF IsNone(author) THEN sc ELSE BrowserMerge(sc, a, cur)
           /\ call' = [ NoCall EXCEPT !.op = "extract", !.url = cur.url,
                          !.resp = [ kind |-> IF IsNone(page) THEN "fetch-failed"
                                              ELSE "page",
                                     page |-> page ],
                          !.ret = author,
                          !.threw = ~IsNone(author) /\ BrowserMergeThrows(sc, a) ]
           /\ hist' = IF IsNone(author) \/ BrowserMergeThrows(sc, a) THEN hist
                      ELSE Merged(hist, cur.url, a.handle, << cur.keyword >>)
  /\ pc' = "idle"
  /\ cur' = NoArticle
  /\ UNCHANGED << variant, svcVars >>

\* const next = new HackerNoonScraper(scraper.exportState()): the next run's
\* scraper, built from this one's snapshot held in memory
UnitReconstruct ==
  /\ pc = "idle"
  /\ sc' = Constructor(Some(ExportState(sc)))
  /\ call' = [ NoCall EXCEPT !.op = "reconstruct" ]
  /\ UNCHANGED << variant, pc, cur, hist, svcVars >>

\* the same with the snapshot written to the data file and read back
UnitReconstructFromFile ==
  /\ pc = "idle"
  /\ sc' = Constructor(Some(JsonState(ExportState(sc))))
  /\ call' = [ NoCall EXCEPT !.op = "reconstruct-file" ]
  /\ UNCHANGED << variant, pc, cur, hist, svcVars >>

\* new HackerNoonScraper(null) or new HackerNoonScraper(undefined): what the
\* service does on a first run, after a reset or with continueMode false
UnitConstructFresh ==
  /\ pc = "idle" /\ call = NoCall
  /\ \E arg \in NoStateArguments :
       /\ sc' = IF ConstructorThrows(variant, arg) THEN sc ELSE Constructor(None)
       /\ call' = [ NoCall EXCEPT !.op = "construct", !.source = arg,
                                  !.threw = ConstructorThrows(variant, arg) ]
  /\ UNCHANGED << variant, pc, cur, hist, svcVars >>

UnitNext ==
  \/ UnitConstructFresh
  \/ UnitCollectFromSitemap
  \/ UnitCollectFromSearch
  \/ UnitCollectFromTag
  \/ UnitGetArticleData
  \/ UnitArticleFetched
  \/ UnitGetAuthorFromArticle
  \/ UnitAuthorFound
  \/ UnitReconstruct
  \/ UnitReconstructFromFile

SpecUnit == UnitInit /\ [][UnitNext]_vars

----------------------------------------------------------------------------
(* The service: POST /api/scrape running scrape() of the sitemap scraper   *)
(* step by step, POST /api/reset, the data file, and the process being     *)
(* stopped and started.                                                    *)

\* what fetchPage(HACKERNOON_BASE + '/sitemap.xml') may give: null, or the
\* sitemap URLs the regular expression matches
IndexResponses ==
  { None,
    Some(<< "https://hackernoon.com/sitemaps/sitemap-1" >>),
    Some(<< "https://hackernoon.com/sitemaps/sitemap-1",
            "https://hackernoon.com/sitemaps/sitemap-2" >>) }

\* the sitemaps served to a run
RunSitemapResponses ==
  { None,
    Some(<< UrlOfSlug(SlugA) >>),
    Some(<< UrlOfSlug(SlugA), UrlOfSlug(SlugB) >>) }

\* the article pages served to a run
RunArticleResponses ==
  { [ kind |-> "fetch-failed" ],
    [ kind |-> "page", props |-> Props("Maker diary", << >>, JaneRich) ],
    [ kind |-> "page", props |-> Props("My SaaS story", << "indie-hackers" >>, JaneBare) ],
    [ kind |-> "page", props |-> Props("My SaaS story", << >>, AlSmith) ] }

\* the profile pages served to a run: null, or the hrefs and the displayName
ProfileResponses ==
  { None,
    Some([ links |-> << "https://hackernoon.com/about", "https://x.com/jane",
                        "https://jane.example" >>,
           displayName |-> Some("Jane Q. Doe") ]) }

\* social of each profile page
ProfileSocial ==
  Tabulate(ProfileResponses,
           LAMBDA r : IF IsNone(r) THEN None ELSE Some(ParseProfile(TheValue(r))))

\* Array.prototype.reverse
Reverse(arr) == [ i \in 1..Len(arr) |-> arr[Len(arr) + 1 - i] ]

\* arr.slice(-n)
SliceLast(arr, n) ==
  SubSeq(arr, (IF n < Len(arr) THEN Len(arr) - n ELSE 0) + 1, Len(arr))

\* JSON.parse(JSON.stringify(scraperState)) of the global, null or a state
JsonGlobalState(st) == IF IsNone(st) THEN None ELSE Some(JsonState(TheValue(st)))

\* what savePersistedData() writes, as JSON.parse reads it back
PersistedData(g) ==
  [ cachedResults |-> g.cachedResults, lastScrapeTime |-> g.lastScrapeTime,
    scraperState |-> JsonGlobalState(g.scraperState),
    scrapeHistory |-> g.scrapeHistory ]

\* the globals after loadPersistedData() at startup
LoadPersistedData(f) ==
  IF IsNone(f) THEN Globals
  ELSE [ Globals EXCEPT !.cachedResults = TheValue(f).cachedResults,
                        !.lastScrapeTime = TheValue(f).lastScrapeTime,
                        !.scraperState = TheValue(f).scraperState,
                        !.scrapeHistory = TheValue(f).scrapeHistory ]

\* new Map(state.authorsMap) holds the author objects of state, and
\* new Map(state.authorArticles) its article arrays: what the scraper does to
\* them shows in the global scraperState it was constructed from
SharedWith(st, scr) ==
  [ st EXCEPT
      !.authorsMap =
        [ k \in 1..Len(st.authorsMap) |->
            << st.authorsMap[k][1], MapGet(scr.authorsMap, st.authorsMap[k][1]) >> ],
      !.authorArticles =
        [ k \in 1..Len(st.authorArticles) |->
            << st.authorArticles[k][1],
               MapGet(scr.authorArticles, st.authorArticles[k][1]) >> ] ]

\* the globals once the running scraper has become scr
GlobalsSharing(scr) ==
  IF run.aliased /\ ~IsNone(svc.scraperState)
  THEN [ svc EXCEPT !.scraperState = Some(SharedWith(TheValue(svc.scraperState), scr)) ]
  ELSE svc

ServiceInit ==
  /\ variant = "service"
  /\ sc = Constructor(None)
  /\ pc = "idle"
  /\ cur = NoArticle
  /\ call = NoCall
  /\ hist = NoHist
  /\ svc = Globals
  /\ file = None
  /\ run = NoRun
  /\ obs = NoObs

ScrapeInProgressNever(g) == FALSE

FinallyOmitted(g) == g

\* finally { scrapeInProgress = false; }
Finally(g) == [ g EXCEPT !.scrapeInProgress = FALSE ]

\* if (scrapeInProgress): the test that answers 409
ScrapeInProgress(g) == g.scrapeInProgress

\* POST /api/scrape while no scrape is in progress, its body naming neither
\* sitemapsToCheck nor maxArticlesPerSitemap: up to the first await of scrape()
ScrapeAccepted ==
  /\ svc.up /\ ~ScrapeInProgress(svc) /\ obs.runs < MaxRuns
  /\ \E reset \in BOOLEAN :
       LET state == IF reset THEN None ELSE svc.scraperState
       IN  /\ svc' = [ svc EXCEPT
                         !.scrapeInProgress = TRUE,
                         !.scraperState = state,
                         !.cachedResults = IF reset THEN None ELSE @,
                         !.scrapeHistory = IF reset THEN << >> ELSE @ ]
           /\ sc' = Constructor(state)
           /\ run' = [ NoRun EXCEPT
                         !.cap = DefaultMaxArticlesPerSitemap,
                         !.aliased = ~IsNone(state),
                         !.start = IF IsNone(state) THEN EmptyState
                                   ELSE TheValue(state),
                         !.fromFile = obs.loaded /\ ~reset ]
           /\ obs' = [ obs EXCEPT !.runs = @ + 1,
                                  !.loaded = @ /\ ~reset,
                                  !.degraded = FALSE,
                                  !.cleared = @ \/ reset ]
  /\ pc' = "index"
  /\ UNCHANGED << variant, cur, call, hist, file >>

\* POST /api/scrape while a scrape is in progress: 409
ScrapeRejected ==
  /\ svc.up /\ ScrapeInProgress(svc)
  /\ obs.response # "SCRAPE_IN_PROGRESS"
  /\ obs' = [ obs EXCEPT !.response = "SCRAPE_IN_PROGRESS" ]
  /\ UNCHANGED << variant, sc, pc, cur, call, hist, svc, file, run >>

\* phase 1, the sitemap index arrives
IndexFetched ==
  /\ svc.up /\ pc = "index"
  /\ \E sitemapIndex \in IndexResponses :
       LET recentSitemaps ==
             IF IsNone(sitemapIndex) THEN << >>
             ELSE Reverse(SliceLast(TheValue(sitemapIndex), DefaultSitemapsToCheck))
       IN  /\ run' = [ run EXCEPT !.sitemaps = recentSitemaps,
                                  !.fetches = AfterFetch(@, IsNone(sitemapIndex)) ]
           /\ pc' = IF recentSitemaps = << >> THEN "articles" ELSE "sitemaps"
  /\ UNCHANGED << variant, sc, cur, call, hist, svc, file, obs >>

\* phase 1, one turn of the loop over recentSitemaps
SitemapCollected ==
  /\ svc.up /\ pc = "sitemaps"
  /\ \E html \in RunSitemapResponses :
       LET r == CollectFromSitemap(sc, html, run.cap)
       IN  /\ sc' = r.sc
           /\ run' = [ run EXCEPT !.sitemaps = Tail(@),
                                  !.allArticles = @ \o r.articles,
                                  !.fetches = AfterFetch(@, IsNone(html)) ]
  /\ pc' = IF Tail(run.sitemaps) = << >> THEN "articles" ELSE "sitemaps"
  /\ UNCHANGED << variant, cur, call, hist, svc, file, obs >>

\* the scraper once getArticleData(url) was entered: marked, unless the guard
\* returned null
Entered(url) == IF AlreadyProcessed(sc, url) THEN sc ELSE MarkProcessed(sc, url)

\* what getArticleData(url) returns when the page fetch gives resp
DataOf(resp, url) ==
  IF AlreadyProcessed(sc, url) THEN None ELSE ArticleData(resp, url)

IsNewAuthorAlways(scr, handle) == TRUE

\* const isNewAuthor = !this.authorsMap.has(data.handle)
IsNewAuthor(scr, handle) == ~MapHas(scr.authorsMap, handle)

\* phase 2, one turn of the loop over allArticles that ends normally
ArticleProcessed ==
  /\ svc.up /\ pc = "articles" /\ run.i <= Len(run.allArticles)
  /\ \E resp \in RunArticleResponses :
       LET url  == run.allArticles[run.i].url
           data == DataOf(resp, url)
           d    == TheValue(data)
           scr  == IF IsNone(data) THEN Entered(url)
                   ELSE MergeArticle(Entered(url), d)
       IN  /\ IF IsNone(data) THEN TRUE ELSE ~MergeThrows(Entered(url), d)
           /\ sc' = scr
           /\ svc' = GlobalsSharing(scr)
           /\ run' = [ run EXCEPT
                         !.i = @ + 1,
                         !.matchedCount = IF IsNone(data) THEN @ ELSE @ + 1,
                         !.newAuthorsCount =
                           IF IsNone(data) THEN @
                           ELSE IF IsNewAuthor(sc, d.handle) THEN @ + 1 ELSE @,
                         !.fetches =
                           AfterFetch(@, ~AlreadyProcessed(sc, url)
                                           /\ resp.kind = "fetch-failed") ]
  /\ UNCHANGED << variant, pc, cur, call, hist, file, obs >>

\* phase 2, a turn in which existing.keywords.add throws: the article is
\* pushed already, scrape() rejects, and the handler answers 500 and clears
\* scrapeInProgress
ArticleMergeFailed ==
  /\ svc.up /\ pc = "articles" /\ run.i <= Len(run.allArticles)
  /\ \E resp \in RunArticleResponses :
       LET url  == run.allArticles[run.i].url
           data == DataOf(resp, url)
           d    == TheValue(data)
       IN  /\ ~IsNone(data) /\ MergeThrows(Entered(url), d)
           /\ svc' = Finally(GlobalsSharing(MergeArticle(Entered(url), d)))
  /\ sc' = Constructor(None)
  /\ run' = NoRun
  /\ pc' = "idle"
  /\ obs' = [ obs EXCEPT !.response = "SCRAPE_FAILED",
                         !.start = run.start, !.fromFile = run.fromFile,
                         !.degraded = run.fetches # "fine" ]
  /\ UNCHANGED << variant, cur, call, hist, file >>

\* const authorsNeedingSocial = authors.filter(...)
ProfilesChosen ==
  /\ svc.up /\ pc = "articles" /\ run.i > Len(run.allArticles)
  /\ run' = [ run EXCEPT !.needing = AuthorsNeedingSocial(sc),
                         !.fetches = AfterFetch(@, FALSE) ]
  /\ pc' = "profiles"
  /\ UNCHANGED << variant, sc, cur, call, hist, svc, file, obs >>

\* phase 3, one turn of the loop over authorsNeedingSocial
ProfileFetched ==
  /\ svc.up /\ pc = "profiles" /\ run.j <= Len(run.needing)
  /\ \E resp \in ProfileResponses :
       LET a == MapGet(sc.authorsMap, run.needing[run.j])
           skipped == SetHas(sc.processedProfiles, a.profileUrl)
           social == IF skipped THEN None ELSE ProfileSocial[resp]
           marked == [ sc EXCEPT !.processedProfiles = SetAdd(@, a.profileUrl) ]
           scr == IF IsNone(social) THEN marked
                  ELSE [ marked EXCEPT !.authorsMap =
                           MapSet(@, a.handle, EnrichAuthor(a, TheValue(social))) ]
       IN  /\ sc' = scr
           /\ svc' = GlobalsSharing(scr)
           /\ run' = [ run EXCEPT !.j = @ + 1,
                                  !.fetches = AfterFetch(@, ~skipped /\ IsNone(resp)) ]
  /\ UNCHANGED << variant, pc, cur, call, hist, file, obs >>

\* what the service keeps of results as cachedResults; results.state is the
\* object kept as scraperState
CachedOf(results) == [ authors |-> results.authors, stats |-> results.stats ]

\* scrape() returns; the handler stores the results, saves and answers 200
ScrapeFinished ==
  /\ svc.up /\ pc = "profiles" /\ run.j > Len(run.needing)
  /\ \E results \in { ScrapeResult(sc, run.newAuthorsCount, Len(run.allArticles),
                                     run.matchedCount) } :
     \E globals \in
          { [ svc EXCEPT
                !.scraperState = Some(results.state),
                !.cachedResults = Some(CachedOf(results)),
                !.lastScrapeTime = Some(obs.runs),
                !.scrapeHistory =
                  Append(@, [ time |-> obs.runs,
                              newAuthors |-> results.stats.newAuthorsThisRun,
                              totalAuthors |-> results.stats.totalAuthors,
                              articlesProcessed |->
                                results.stats.articlesProcessed ]) ] } :
         /\ svc' = Finally(globals)
         /\ file' = Some(PersistedData(globals))
         /\ obs' = [ obs EXCEPT !.response = "OK", !.loaded = FALSE,
                                !.start = run.start, !.fromFile = run.fromFile,
                                !.degraded = run.fetches # "fine",
                                !.latest = Some(CachedOf(results)),
                                !.fresh = FALSE, !.cleared = FALSE ]
  /\ sc' = Constructor(None)
  /\ run' = NoRun
  /\ pc' = "idle"
  /\ UNCHANGED << variant, cur, call, hist >>

\* POST /api/reset
Reset ==
  /\ svc.up
  /\ svc' = [ svc EXCEPT !.scraperState = None, !.cachedResults = None,
                         !.scrapeHistory = << >>, !.lastScrapeTime = None ]
  /\ file' = None
  /\ run' = [ run EXCEPT !.aliased = FALSE ]
  /\ obs' = [ obs EXCEPT !.loaded = FALSE, !.latest = None,
                         !.fresh = TRUE, !.cleared = TRUE ]
  /\ UNCHANGED << variant, sc, pc, cur, call, hist >>

\* the process is gone: its memory, and the request in flight with it
ProcessGone ==
  /\ svc' = [ Globals EXCEPT !.up = FALSE ]
  /\ sc' = Constructor(None)
  /\ run' = NoRun
  /\ pc' = "idle"
  /\ obs' = [ obs EXCEPT !.response = "none", !.loaded = FALSE ]

\* process.on('SIGTERM' / 'SIGINT'): savePersistedData(); process.exit(0)
Sigterm ==
  /\ svc.up
  /\ file' = Some(PersistedData(svc))
  /\ ProcessGone
  /\ UNCHANGED << variant, cur, call, hist >>

\* the process is killed without notice
Killed ==
  /\ svc.up
  /\ ProcessGone
  /\ UNCHANGED << variant, cur, call, hist, file >>

\* the process starts: loadPersistedData()
Started ==
  /\ ~svc.up
  /\ svc' = LoadPersistedData(file)
  /\ obs' = [ obs EXCEPT !.loaded = ~IsNone(file)
                                    /\ ~IsNone(TheValue(file).scraperState),
                         !.cleared = IsNone(LoadPersistedData(file).cachedResults) ]
  /\ UNCHANGED << variant, sc, pc, cur, call, hist, file, run >>

\* the header line of GET /api/csv
CsvHeaders ==
  << "Author Name", "Handle", "Profile URL", "Bio", "Twitter/X", "LinkedIn",
     "GitHub", "Website", "Matched Keywords", "Sample Articles" >>

\* `"${(s || '').replace(/"/g, '""')}"`
CsvQuoted(s) == "\"" \o ReplaceAll(OrElse(s, ""), "\"", "\"\"") \o "\""

\* the row of an author of cachedResults.authors
CsvRow(a) ==
  << CsvQuoted(a.name), a.handle, a.profileUrl, CsvQuoted(a.bio),
     OrElse(a.twitter, ""), OrElse(a.linkedin, ""), OrElse(a.github, ""),
     OrElse(a.website, ""),
     "\"" \o OrElse(Join(a.matchedKeywords, ", "), "") \o "\"",
     "\"" \o OrElse(Join([ k \in 1..Len(a.sampleArticles) |->
                             a.sampleArticles[k].title ], " | "), "") \o "\"" >>

\* [headers.join(','), ...rows.map(r => r.join(','))].join('\n')
CsvOf(authors) ==
  Join(<< Join(CsvHeaders, ",") >>
         \o [ k \in 1..Len(authors) |-> Join(CsvRow(authors[k]), ",") ], "\n")

ResultsResponseNeverMissing(g) ==
  [ status |-> 200, code |-> "OK",
    data |-> IF IsNone(g.cachedResults) THEN CachedOf(ScrapeResult(Constructor(None), 0, 0, 0))
             ELSE TheValue(g.cachedResults) ]

\* what GET /api/results answers
ResultsResponse(g) ==
  IF IsNone(g.cachedResults)
  THEN [ status |-> 404, code |-> "NO_RESULTS", data |-> CachedOf(ScrapeResult(Constructor(None), 0, 0, 0)) ]
  ELSE [ status |-> 200, code |-> "OK", data |-> TheValue(g.cachedResults) ]

\* what GET /api/csv answers
CsvResponse(g) ==
  IF IsNone(g.cachedResults)
  THEN [ status |-> 404, code |-> "NO_RESULTS", body |-> "" ]
  ELSE [ status |-> 200, code |-> "OK",
         body |-> CsvOf(TheValue(g.cachedResults).authors) ]

\* GET /api/results
GetResults ==
  /\ svc.up
  /\ obs' = [ obs EXCEPT !.response = ResultsResponse(svc).code ]
  /\ UNCHANGED << variant, sc, pc, cur, call, hist, svc, file, run >>

\* GET /api/csv
GetCsv ==
  /\ svc.up
  /\ obs' = [ obs EXCEPT !.response = CsvResponse(svc).code ]
  /\ UNCHANGED << variant, sc, pc, cur, call, hist, svc, file, run >>

Next ==
  \/ ScrapeAccepted
  \/ ScrapeRejected
  \/ IndexFetched
  \/ SitemapCollected
  \/ ArticleProcessed
  \/ ArticleMergeFailed
  \/ ProfilesChosen
  \/ ProfileFetched
  \/ ScrapeFinished
  \/ Reset
  \/ GetResults
  \/ GetCsv
  \/ Sigterm
  \/ Killed
  \/ Started

Spec == ServiceInit /\ [][Next]_vars

\* the steps of the handler of POST /api/scrape after its first await: each
\* is the continuation of a fetch or a delay that settles (fetchPage catches
\* every error and gives up after its retries, a timer fires), which the
\* event loop runs once it is due
RunContinues ==
  \/ IndexFetched
  \/ SitemapCollected
  \/ ArticleProcessed
  \/ ArticleMergeFailed
  \/ ProfilesChosen
  \/ ProfileFetched
  \/ ScrapeFinished

\* the service, a run in progress being always continued
SpecLive == Spec /\ WF_vars(RunContinues)

----------------------------------------------------------------------------
(* Pipeline specification: the Merger, the Enricher and the Finalizer of   *)
(* scrape(), article by article and profile by profile, over one or more   *)
(* runs of a scraper rebuilt from the exported state.                      *)

\* the n-th article the site lists
NthUrl(n) == HACKERNOON_BASE \o "/a" \o SubSeq("123456789", n, n)

\* pageProps.data the n-th article page may hold: any of three authors'
\* pages for the first articles, Jane's for the rest
PropsAt(n) ==
  IF n <= FreeArticles
  THEN { Props("Maker diary", << >>, JaneRich),
         Props("My SaaS story", << "indie-hackers" >>, JaneBare),
         Props("My SaaS story", << >>, AlSmith) }
  ELSE { Props("Maker diary", << >>, JaneRich) }

\* what the browser may show for the n-th article
BrowserPagesAt(n) ==
  IF n <= FreeArticles
  THEN { p \in BrowserArticlePages : ~IsNone(PageAuthor[p]) }
  ELSE { Some([ h1 |-> "Maker diary",
                userLinks |-> << [ href |-> "/u/j", text |-> "J" ],
                                 [ href |-> "/u/jdoe?ref=x", text |-> " Jane Doe " ] >> ]) }

\* the reference to the n-th article the collectors hand on
NthArticle(n) ==
  [ slug |-> SubSeq("123456789", n, n), title |-> "Story", url |-> NthUrl(n),
    keyword |-> IF n % 2 = 1 THEN "maker" ELSE "indie hacker",
    source |-> "search" ]

\* the links of Jane's profile page: the site's own share links first
JaneLinks ==
  << "https://hackernoon.com/about",
     "https://hackernoon.com/share?u=twitter.com/jane",
     "https://hackernoon.com/share?u=linkedin.com/in/jane",
     "https://hackernoon.com/share?u=github.com/jane",
     "https://x.com/jane", "https://www.linkedin.com/in/jane",
     "https://github.com/jane", "https://jane.example" >>

\* what fetching a profile page may give the sitemap scraper: null, or the page
SocialPages ==
  { None,
    Some([ links |-> JaneLinks, displayName |-> Some("Jane Q. Doe") ]),
    Some([ links |-> << "https://github.com/solo" >>, displayName |-> None ]) }

\* what the browser may show for a profile: null, or the page
ProfilePages ==
  { None,
    Some([ h1 |-> "by Jane Q. Doe @jdoe", description |-> "Builder  of things ",
           links |-> JaneLinks ]),
    Some([ h1 |-> "Jane     D", description |-> "", links |-> << >> ]),
    Some([ h1 |-> "", description |-> "",
           links |-> << "https://github.com/solo" >> ]) }

\* what getProfileSocial returns for each page
SocialOf ==
  Tabulate(SocialPages,
           LAMBDA r : IF IsNone(r) THEN None ELSE Some(ParseProfile(TheValue(r))))

\* what getProfile returns for each page
ProfileOf ==
  Tabulate(ProfilePages,
           LAMBDA r : IF IsNone(r) THEN None ELSE Some(EvaluateProfile(TheValue(r))))

\* hist after an observation of handle was merged: its keywords, and its bio
\* and website when they are the first non-empty ones observed for the handle
Observed(h, url, handle, kws, bio, website) ==
  LET First(seen, v) == IF Falsy(v) \/ \E x \in seen : x[1] = handle
                        THEN seen ELSE seen \cup { << handle, v >> }
  IN  [ Merged(h, url, handle, kws) EXCEPT
          !.articles = @ \cup { << handle, url >> },
          !.firstBio = First(@, bio),
          !.firstWebsite = First(@, website) ]

AuthorsInit ==
  /\ variant \in { "sitemap", "browser", "legacy" }
  /\ sc = Constructor(None)
  /\ pc = "merging"
  /\ cur = NoArticle
  /\ call = NoCall
  /\ hist = NoHist
  /\ svc = Globals
  /\ file = None
  /\ run = NoRun
  /\ obs = [ NoObs EXCEPT !.runs = 1 ]

\* phase 2 of the sitemap scraper, one turn of the loop in which
\* getArticleData returned the data of a matching article
ArticleObserved ==
  /\ variant = "sitemap" /\ pc = "merging"
  /\ Len(sc.processedUrls) < MaxObserved
  /\ LET n == Len(sc.processedUrls) + 1
     IN  \E props \in PropsAt(n) :
           LET data == [ TheValue(ParsedArticle[props]) EXCEPT !.articleUrl = NthUrl(n) ]
               entered == MarkProcessed(sc, NthUrl(n))
               threw == MergeThrows(entered, data)
           IN  /\ sc' = MergeArticle(entered, data)
               /\ call' = [ NoCall EXCEPT !.op = "merge", !.url = NthUrl(n),
                              !.ret = Some(data), !.threw = threw,
                              !.repeat = MapHas(sc.authorsMap, data.handle) ]
               /\ hist' = IF threw THEN hist
                          ELSE Observed(hist, NthUrl(n), data.handle,
                                        data.matchedKeywords, data.bio, data.website)
               /\ run' = [ run EXCEPT
                             !.i = @ + 1, !.matchedCount = @ + 1,
                             !.newAuthorsCount =
                               IF MapHas(sc.authorsMap, data.handle) THEN @ ELSE @ + 1 ]
               /\ pc' = IF threw THEN "failed" ELSE "merging"
  /\ UNCHANGED << variant, cur, svc, file, obs >>

\* the extraction phase of the browser scrapers, one turn of the loop in
\* which getAuthorFromArticle returned an author
AuthorObserved ==
  /\ variant \in { "browser", "legacy" } /\ pc = "merging"
  /\ Len(sc.processedUrls) < MaxObserved
  /\ LET n == Len(sc.processedUrls) + 1
     IN  \E page \in BrowserPagesAt(n) :
           LET author == TheValue(PageAuthor[page])
               entered == MarkProcessed(sc, NthUrl(n))
               threw == BrowserMergeThrows(entered, author)
           IN  /\ sc' = BrowserMerge(entered, author, NthArticle(n))
               /\ call' = [ NoCall EXCEPT !.op = "merge", !.url = NthUrl(n),
                              !.ret = Some(author), !.threw = threw,
                              !.repeat = MapHas(sc.authorsMap, author.handle) ]
               /\ hist' = IF threw THEN hist
                          ELSE Observed(hist, NthUrl(n), author.handle,
                                        << NthArticle(n).keyword >>, "", "")
               /\ run' = [ run EXCEPT
                             !.i = @ + 1,
                             !.newAuthorsCount =
                               IF MapHas(sc.authorsMap, author.handle) THEN @ ELSE @ + 1 ]
               /\ pc' = IF threw THEN "failed" ELSE "merging"
  /\ UNCHANGED << variant, cur, svc, file, obs >>

\* the loop over the articles ends: the authors phase 3 visits are chosen
ProfilesBegun ==
  /\ pc = "merging"
  /\ run' = [ run EXCEPT
                !.needing = CASE variant = "sitemap" -> AuthorsNeedingSocial(sc)
                              [] variant = "browser" -> AuthorsNeedingProfile(sc)
                              [] OTHER -> [ i \in 1..Len(sc.authorsMap) |->
                                              sc.authorsMap[i][1] ],
                !.j = 1 ]
  /\ pc' = "profiles"
  /\ call' = [ NoCall EXCEPT !.op = "profiles" ]
  /\ UNCHANGED << variant, sc, cur, hist, svc, file, obs >>

\* hist after getProfileSocial or getProfile fetched the page of profileUrl
ProfileFetchedAt(h, profileUrl) ==
  [ h EXCEPT !.profiles = @ \cup { profileUrl },
             !.profilesAgain = @ \cup (h.profiles \cap { profileUrl }) ]

\* phase 3 of the sitemap scraper, one turn of the loop
SocialEnriched ==
  /\ variant = "sitemap" /\ pc = "profiles" /\ run.j <= Len(run.needing)
  /\ \E resp \in SocialPages :
       LET a == MapGet(sc.authorsMap, run.needing[run.j])
           skipped == ProfileProcessed(sc, a.profileUrl)
           social == IF skipped THEN None ELSE SocialOf[resp]
           marked == IF skipped THEN sc ELSE MarkProfile(sc, a.profileUrl)
       IN  /\ sc' = IF IsNone(social) THEN marked
                    ELSE [ marked EXCEPT !.authorsMap =
                             MapSet(@, a.handle, EnrichAuthor(a, TheValue(social))) ]
           /\ call' = [ NoCall EXCEPT !.op = "profile", !.url = a.profileUrl,
                          !.content = IF skipped THEN None ELSE resp,
                          !.ret = social, !.repeat = skipped ]
           /\ hist' = IF skipped THEN hist ELSE ProfileFetchedAt(hist, a.profileUrl)
  /\ run' = [ run EXCEPT !.j = @ + 1 ]
  /\ UNCHANGED << variant, pc, cur, svc, file, obs >>

\* the profile phase of the browser scraper, one turn of the loop
ProfileEnriched ==
  /\ variant = "browser" /\ pc = "profiles" /\ run.j <= Len(run.needing)
  /\ \E resp \in ProfilePages :
       LET a == MapGet(sc.authorsMap, run.needing[run.j])
           skipped == ProfileProcessed(sc, a.profileUrl)
           profile == IF skipped THEN None ELSE ProfileOf[resp]
           marked == IF skipped THEN sc ELSE MarkProfile(sc, a.profileUrl)
       IN  /\ sc' = IF IsNone(profile) THEN marked
                    ELSE [ marked EXCEPT !.authorsMap =
                             MapSet(@, a.handle,
                                    BrowserEnrichAuthor(a, TheValue(profile))) ]
           /\ call' = [ NoCall EXCEPT !.op = "profile", !.url = a.profileUrl,
                          !.content = IF skipped THEN None ELSE resp,
                          !.ret = profile, !.repeat = skipped ]
           /\ hist' = IF skipped THEN hist ELSE ProfileFetchedAt(hist, a.profileUrl)
  /\ run' = [ run EXCEPT !.j = @ + 1 ]
  /\ UNCHANGED << variant, pc, cur, svc, file, obs >>

\* the profile loop of the first scraper, first half of a turn: getProfile
\* fetches the page and the profile is applied
LegacyProfileEnriched ==
  /\ variant = "legacy" /\ pc = "profiles" /\ run.j <= Len(run.needing)
  /\ \E resp \in ProfilePages :
       LET a == MapGet(sc.authorsMap, run.needing[run.j])
           profile == ProfileOf[resp]
       IN  /\ sc' = IF IsNone(profile) THEN sc
                    ELSE [ sc EXCEPT !.authorsMap =
                             MapSet(@, a.handle,
                                    BrowserEnrichAuthor(a, TheValue(profile))) ]
           /\ call' = [ NoCall EXCEPT !.op = "profile", !.url = a.profileUrl,
                          !.content = resp, !.ret = profile ]
           /\ hist' = ProfileFetchedAt(hist, a.profileUrl)
  /\ pc' = "finalizing"
  /\ UNCHANGED << variant, cur, svc, file, run, obs >>

\* second half of the turn: the author object is finalized in place
LegacyAuthorFinalized ==
  /\ variant = "legacy" /\ pc = "finalizing"
  /\ LET a == MapGet(sc.authorsMap, run.needing[run.j])
     IN  /\ sc' = [ sc EXCEPT !.authorsMap =
                      MapSet(@, a.handle, LegacyFinalizeAuthor(sc, a)) ]
         /\ call' = [ NoCall EXCEPT !.op = "finalize-author", !.url = a.profileUrl ]
  /\ run' = [ run EXCEPT !.j = @ + 1 ]
  /\ pc' = "profiles"
  /\ UNCHANGED << variant, cur, hist, svc, file, obs >>

\* the loop over the profiles ends: the authors are finalized and scrape()
\* returns
Finalized ==
  /\ pc = "profiles" /\ run.j > Len(run.needing)
  /\ call' = [ NoCall EXCEPT
                 !.op = "finalize",
                 !.ret = CASE variant = "sitemap" ->
                                ScrapeResult(sc, run.newAuthorsCount, run.i - 1,
                                             run.matchedCount)
                           [] variant = "browser" ->
                                BrowserScrapeResult(sc, run.newAuthorsCount, run.i - 1)
                           [] OTHER -> LegacyScrapeResult(sc, run.i - 1) ]
  /\ pc' = "finalized"
  /\ UNCHANGED << variant, sc, cur, hist, svc, file, run, obs >>

\* getProfileSocial(profileUrl) or getProfile(profileUrl) called on the
\* scraper by another caller than scrape(), for the profile of a known
\* author, before the profile phase of a run: what it returns is not applied
ProfileRequested ==
  /\ variant \in { "sitemap", "browser" } /\ pc = "merging"
  /\ \E i \in 1..Len(sc.authorsMap) :
       LET profileUrl == sc.authorsMap[i][2].profileUrl
           skipped == ProfileProcessed(sc, profileUrl)
       IN  /\ sc' = IF skipped THEN sc ELSE MarkProfile(sc, profileUrl)
           /\ hist' = IF skipped THEN hist ELSE ProfileFetchedAt(hist, profileUrl)
           /\ call' = [ NoCall EXCEPT !.op = "getProfile", !.url = profileUrl,
                          !.repeat = skipped ]
  /\ UNCHANGED << variant, pc, cur, svc, file, run, obs >>

\* the next run: a scraper constructed from the state the last run returned,
\* kept in memory or written to a file as JSON and read back
NextRunStarted ==
  /\ variant \in { "sitemap", "browser" } /\ pc = "finalized"
  /\ obs.runs < MaxRuns
  /\ \E viaFile \in BOOLEAN :
       /\ sc' = Constructor(Some(IF viaFile THEN JsonState(call.ret.state)
                                 ELSE call.ret.state))
       /\ call' = [ NoCall EXCEPT !.op = "construct", !.repeat = viaFile ]
  /\ run' = NoRun
  /\ obs' = [ obs EXCEPT !.runs = @ + 1 ]
  /\ pc' = "merging"
  /\ UNCHANGED << variant, cur, hist, svc, file >>

AuthorsNext ==
  \/ ArticleObserved
  \/ AuthorObserved
  \/ ProfilesBegun
  \/ SocialEnriched
  \/ ProfileEnriched
  \/ LegacyProfileEnriched
  \/ LegacyAuthorFinalized
  \/ Finalized
  \/ ProfileRequested
  \/ NextRunStarted

SpecAuthors == AuthorsInit /\ [][AuthorsNext]_vars

----------------------------------------------------------------------------
(* Properties of the scraper object, checked under SpecUnit.               *)

\* C1: at-most-once extraction.  No URL is ever fetched by two extractor
\* calls nor merged by two, and an extractor call on a URL that is already in
\* processedUrls returns null at once: no fetch is issued, and the scraper
\* state and the history of fetches and merges stay as they were.
C1_AtMostOnceExtraction ==
  /\ [](hist.fetchedAgain = { } /\ hist.mergedAgain = { })
  /\ [][ ( /\ pc = "idle"
           /\ call'.op \in { "enter", "extract" }
           /\ SetHas(sc.processedUrls, call'.url) )
         => ( /\ call'.op = "extract"
              /\ call'.resp.kind = "skipped"
              /\ IsNone(call'.ret)
              /\ pc' = "idle"
              /\ sc' = sc
              /\ hist' = hist ) ]_vars

\* an extractor call was made on a URL whose article had been merged before,
\* and was skipped
C1_Witness ==
  /\ call.op = "extract" /\ call.resp.kind = "skipped"
  /\ call.url \in hist.merged

\* C2: the URL is marked whatever the outcome.  While the fetch is pending the
\* URL is already in processedUrls; it is there when the extractor has
\* returned, whatever the response was; and a failed fetch, a page without
\* data and a page without an author handle all give null.
C2_MarkedRegardlessOfOutcome ==
  /\ pc = "fetching" => SetHas(sc.processedUrls, cur.url)
  /\ call.op = "extract" =>
       /\ SetHas(sc.processedUrls, call.url)
       /\ call.resp.kind \in { "fetch-failed", "no-data" } => IsNone(call.ret)
       /\ ( /\ variant = "sitemap" /\ call.resp.kind = "page"
            /\ Falsy(call.resp.props.profile.handle) ) => IsNone(call.ret)
       /\ ( /\ variant = "browser" /\ call.resp.kind = "page"
            /\ TheValue(call.resp.page).userLinks = << >> ) => IsNone(call.ret)

\* the extractor returned null for a page that matches a keyword but names no
\* author, and its URL is marked
C2_Witness ==
  /\ variant = "sitemap"
  /\ call.op = "extract" /\ call.resp.kind = "page"
  /\ call.resp.props = Props("Maker diary", << >>, NoProfile)
  /\ IsNone(call.ret)
  /\ SetHas(sc.processedUrls, call.url)

\* C3: filter and commit.  No reference a collect call returns has a slug
\* that was in seenSlugs, or a URL that was in processedUrls, when the call
\* started; on return the slug of every returned reference is in seenSlugs.
C3_FilterAndCommit ==
  [][ call'.op = "collect" =>
        \A i \in 1..Len(call'.ret) :
          /\ ~SetHas(sc.seenSlugs, call'.ret[i].slug)
          /\ ~SetHas(sc.processedUrls, call'.ret[i].url)
          /\ SetHas(sc'.seenSlugs, call'.ret[i].slug) ]_vars

\* a collect call over a page that lists both articles returned the second
\* one only: the first was dropped by the filter
C3_Witness ==
  /\ call.op = "collect" /\ call.cap = MaxCap
  /\ IF variant = "sitemap"
     THEN call.content = Some(<< UrlOfSlug(SlugA), UrlOfSlug(SlugB) >>)
     ELSE call.content = Some(<< AnchorA, AnchorB >>)
  /\ Len(call.ret) = 1 /\ call.ret[1].slug = SlugB
  /\ SetHas(sc.seenSlugs, SlugA) /\ SetHas(sc.seenSlugs, SlugB)

\* C4: a slug is never collected again.  Over all the collect calls made on a
\* scraper and on the scrapers constructed from its exported snapshot, no slug
\* is in two returned references, be they of one call or of two.
C4_SlugNeverRecollected == hist.returnedAgain = { }

\* a sitemap listing one article twice and then the other gave one reference
\* for each
C4_Witness ==
  /\ variant = "sitemap" /\ call.op = "collect"
  /\ call.content = Some(<< UrlOfSlug(SlugA), UrlOfSlug(SlugA), UrlOfSlug(SlugB) >>)
  /\ Len(call.ret) = 2
  /\ call.ret[1].slug = SlugA /\ call.ret[2].slug = SlugB

\* C5 as stated: a collect call that repeats the call before it (same method,
\* same source content, same cap) returns no reference, whatever the content
\* and the cap.
C5_IdempotentRecollection ==
  (call.op = "collect" /\ call.repeat) => call.ret = << >>

\* C5 as it holds: the repeated call returns no reference when the method is
\* collectFromSearch or collectFromTag, and for collectFromSitemap when the
\* first call returned fewer references than the cap.
C5_IdempotentUnlessCapCut ==
  ( /\ call.op = "collect" /\ call.repeat
    /\ call.source \in { "search", "tag" } \/ call.prevLen < call.cap )
  => call.ret = << >>

\* a sitemap collect that had returned a reference, fewer than the cap, was
\* repeated and returned none
C5_Witness ==
  /\ call.op = "collect" /\ call.repeat /\ call.source = "sitemap"
  /\ call.prevLen > 0 /\ call.prevLen < call.cap
  /\ call.ret = << >>

\* the keywords observed for a handle in the merges made so far
ObservedKeywords(handle) == { o[2] : o \in { x \in hist.observed : x[1] = handle } }

\* C6: the keyword union does not depend on the order.  The keyword set of an
\* author is the union of the keyword sets of the observations merged for the
\* handle, in whichever order they were merged.
C6_KeywordUnion ==
  \A i \in 1..Len(sc.authorsMap) :
    LET a == sc.authorsMap[i][2]
    IN  a.keywords.isSet => Range(a.keywords.items) = ObservedKeywords(a.handle)

\* two observations of one handle with different keywords were merged, the
\* one with the tag keyword first
C6_Witness ==
  /\ variant = "sitemap"
  /\ Cardinality(hist.merged) = 2
  /\ MapHas(sc.authorsMap, "jdoe")
  /\ MapGet(sc.authorsMap, "jdoe").keywords = KwSet(<< "indie-hackers", "maker" >>)

\* C8: the round trip is a fixed point.  In every state of a scraper,
\* exportState(), a scraper constructed from the export, and exportState() of
\* that scraper give a snapshot equal to the first.
C8_RoundTripFixedPoint ==
  ExportState(Constructor(Some(ExportState(sc)))) = ExportState(sc)

\* a scraper built from the snapshot of one with slugs, processed URLs and an
\* author with two keywords and two articles
C8_Witness ==
  /\ call.op = "reconstruct"
  /\ Len(sc.seenSlugs) = 2 /\ Len(sc.processedUrls) = 2
  /\ \E i \in 1..Len(sc.authorsMap) :
       /\ sc.authorsMap[i][2].keywords.isSet
       /\ Len(sc.authorsMap[i][2].keywords.items) = 2
       /\ Len(MapGet(sc.authorArticles, sc.authorsMap[i][1])) = 2

----------------------------------------------------------------------------
(* Properties of the service, checked under Spec.                          *)

\* the step in which a scrape request is answered 200
IsScrapeFinished == pc = "profiles" /\ pc' = "idle" /\ svc'.up

\* the handles of a list of result authors, and the keywords reported for one
HandlesOf(authors) == { authors[k].handle : k \in 1..Len(authors) }
ReportedKeywords(authors, handle) ==
  UNION { Range(authors[k].matchedKeywords) :
            k \in { n \in 1..Len(authors) : authors[n].handle = handle } }

\* C7 as stated: matchedKeywords never shrinks.  When a run replaces the
\* cached result of the run before it, every author of the earlier result is
\* in the later one with at least the keywords the earlier one reported.
C7_KeywordsNeverShrink ==
  [][ (IsScrapeFinished /\ ~IsNone(svc.cachedResults)) =>
        LET earlier == TheValue(svc.cachedResults).authors
            later   == TheValue(svc'.cachedResults).authors
        IN  \A h \in HandlesOf(earlier) :
              ReportedKeywords(earlier, h) \subseteq ReportedKeywords(later, h) ]_vars

\* C9 as stated, the part on completion: a run whose scraper was constructed
\* from the snapshot loadPersistedData read does not end in SCRAPE_FAILED.
C9_RunFromFileCompletes ==
  ~(obs.response = "SCRAPE_FAILED" /\ obs.fromFile)

\* C10: monotonic accumulation.  When a run that started from snapshot S is
\* answered, the snapshot it leaves as scraperState holds every slug, every
\* processed URL, every processed profile and every author handle of S, and
\* its result lists every author of S.
C10_MonotonicAccumulation ==
  [][ IsScrapeFinished =>
        LET S == run.start
            E == TheValue(svc'.scraperState)
            R == TheValue(svc'.cachedResults)
        IN  /\ Range(S.seenSlugs) \subseteq Range(E.seenSlugs)
            /\ Range(S.processedUrls) \subseteq Range(E.processedUrls)
            /\ Range(S.processedProfiles) \subseteq Range(E.processedProfiles)
            /\ MapKeys(S.authorsMap) \subseteq MapKeys(E.authorsMap)
            /\ MapKeys(S.authorsMap) \subseteq HandlesOf(R.authors) ]_vars

\* a run that started from a snapshot with slugs, URLs, profiles and an author
\* was answered, and left a snapshot with more slugs
C10_Witness ==
  /\ pc = "idle" /\ svc.up /\ obs.response = "OK"
  /\ obs.start.seenSlugs # << >> /\ obs.start.processedUrls # << >>
  /\ obs.start.processedProfiles # << >> /\ obs.start.authorsMap # << >>
  /\ ~IsNone(svc.scraperState)
  /\ Len(TheValue(svc.scraperState).seenSlugs) > Len(obs.start.seenSlugs)

----------------------------------------------------------------------------
(* Properties of the Merger, the Enricher and the Finalizer, checked under *)
(* SpecAuthors.                                                            *)

\* the URLs of the articles stored for a handle, in order
StoredUrls(scr, handle) ==
  LET arts == IF MapHas(scr.authorArticles, handle)
              THEN MapGet(scr.authorArticles, handle) ELSE << >>
  IN  [ k \in 1..Len(arts) |-> arts[k].url ]

\* C11: one record per handle.  In every reachable state the author map
\* holds at most one author per handle, filed under that handle, and so does
\* the authors list of every result; the observations merged for a handle
\* all end in that one author: each of their articles is stored for the
\* handle and, while the author's keywords are a Set, they are the keywords
\* of all those observations.
C11_OneRecordPerHandle ==
  /\ \A i, j \in 1..Len(sc.authorsMap) :
       sc.authorsMap[i][2].handle = sc.authorsMap[j][2].handle => i = j
  /\ \A i \in 1..Len(sc.authorsMap) : sc.authorsMap[i][1] = sc.authorsMap[i][2].handle
  /\ \A o \in hist.articles :
       /\ MapHas(sc.authorsMap, o[1])
       /\ o[2] \in Range(StoredUrls(sc, o[1]))
  /\ \A i \in 1..Len(sc.authorsMap) :
       LET a == sc.authorsMap[i][2]
       IN  a.keywords.isSet => Range(a.keywords.items) = ObservedKeywords(a.handle)
  /\ pc = "finalized" =>
       LET authors == call.ret.authors
       IN  /\ Len(authors) = Len(sc.authorsMap)
           /\ \A i, j \in 1..Len(authors) :
                authors[i].handle = authors[j].handle => i = j

\* a run ended after two articles of jdoe were merged, one matched by the
\* tag indie-hackers and one by the keyword maker: the result lists jdoe
\* once, with both keywords and both articles
C11_Witness ==
  /\ variant = "sitemap" /\ pc = "finalized"
  /\ { o \in hist.articles : o[1] = "jdoe" } =
       { << "jdoe", NthUrl(1) >>, << "jdoe", NthUrl(2) >> }
  /\ \E i \in 1..Len(call.ret.authors) :
       LET r == call.ret.authors[i]
       IN  /\ r.handle = "jdoe"
           /\ Range(r.matchedKeywords) = { "indie-hackers", "maker" }
           /\ Len(r.sampleArticles) = 2

\* the position of an article in the order of observation
UrlNo(url) == CHOOSE n \in 1..9 : NthUrl(n) = url

\* the articles merged for a handle
ArticlesSeen(handle) == { o[2] : o \in { x \in hist.articles : x[1] = handle } }

\* C12: sample cap.  In every result each author has at most 5
\* sampleArticles, however many articles were merged for the handle over the
\* runs so far, and they are the earliest-observed ones in observation
\* order: all of them when there are at most 5 (3 in the first scraper),
\* else the first 5.
C12_SampleCap ==
  pc = "finalized" =>
    \A i \in 1..Len(call.ret.authors) :
      LET r == call.ret.authors[i]
          urls == [ k \in 1..Len(r.sampleArticles) |-> r.sampleArticles[k].url ]
          seen == ArticlesSeen(r.handle)
          cap == IF variant = "legacy" THEN LegacySampleCap ELSE SampleCap
      IN  /\ Len(urls) <= SampleCap
          /\ Len(urls) = IF Cardinality(seen) < cap THEN Cardinality(seen) ELSE cap
          /\ Range(urls) \subseteq seen
          /\ \A k \in 1..(Len(urls) - 1) : UrlNo(urls[k]) < UrlNo(urls[k + 1])
          /\ \A u \in seen \ Range(urls) :
               \A k \in 1..Len(urls) : UrlNo(urls[k]) < UrlNo(u)

\* the second run of a scraper ended with more than 5 articles merged for
\* one author, some in each run, and the result gives the author 5 of them
C12_Witness ==
  /\ pc = "finalized" /\ variant # "legacy"
  /\ obs.runs = 2 /\ run.i > 1
  /\ \E i \in 1..Len(call.ret.authors) :
       LET r == call.ret.authors[i]
       IN  /\ Cardinality(ArticlesSeen(r.handle)) > SampleCap
           /\ Cardinality(ArticlesSeen(r.handle)) > run.i - 1
           /\ Len(r.sampleArticles) = SampleCap

\* C13: fill-only merge.  Once the bio or the website of an author is
\* non-empty, merging a later observation of the handle whose bio (website)
\* is empty leaves the stored bio (website) as it was.
C13_FillOnlyMerge ==
  [][ (variant = "sitemap" /\ call'.op = "merge" /\ call'.repeat) =>
        LET d == TheValue(call'.ret)
            old == MapGet(sc.authorsMap, d.handle)
            new == MapGet(sc'.authorsMap, d.handle)
        IN  /\ (~Falsy(old.bio) /\ Falsy(d.bio)) => new.bio = old.bio
            /\ (~Falsy(old.website) /\ Falsy(d.website)) => new.website = old.website
    ]_vars

\* an observation of jdoe without bio and website was merged into the
\* author who has both
C13_Witness ==
  /\ variant = "sitemap" /\ call.op = "merge" /\ call.repeat /\ ~call.threw
  /\ TheValue(call.ret).handle = "jdoe"
  /\ TheValue(call.ret).bio = "" /\ TheValue(call.ret).website = ""
  /\ MapGet(sc.authorsMap, "jdoe").bio = "X"
  /\ MapGet(sc.authorsMap, "jdoe").website = "https://jane.dev"

\* C14: name upgrade on merge.  When a repeat observation of a known handle
\* is merged, the stored name becomes the observation's name if that name is
\* non-empty and longer than the stored one, and stays as it was otherwise.
C14_NameUpgradeOnMerge ==
  [][ (variant \in { "sitemap", "browser" } /\ call'.op = "merge"
       /\ call'.repeat /\ ~call'.threw) =>
        LET d == TheValue(call'.ret)
            name == IF variant = "sitemap" THEN d.name ELSE CleanName(d.name)
            old == MapGet(sc.authorsMap, d.handle)
            new == MapGet(sc'.authorsMap, d.handle)
        IN  new.name = IF ~Falsy(name) /\ Len(name) > Len(old.name)
                       THEN name ELSE old.name
    ]_vars

\* C15: the first non-empty value wins.  The bio and the website of an
\* author are the first non-empty bio and the first non-empty website among
\* the observations merged for the handle, whatever came before and after.
C15_FirstNonEmptyWins ==
  variant = "sitemap" =>
    /\ \A o \in hist.firstBio : MapGet(sc.authorsMap, o[1]).bio = o[2]
    /\ \A o \in hist.firstWebsite : MapGet(sc.authorsMap, o[1]).website = o[2]

\* C16: enrichment never overwrites a filled field.  A turn of the profile
\* loop leaves every non-empty twitter, linkedin, github, website and bio of
\* every author as it was, whatever the profile page holds.
C16_EnrichmentKeepsFilled ==
  [][ (variant \in { "sitemap", "browser" } /\ call'.op = "profile") =>
        /\ Len(sc'.authorsMap) = Len(sc.authorsMap)
        /\ \A i \in 1..Len(sc.authorsMap) :
             LET old == sc.authorsMap[i][2]
                 new == sc'.authorsMap[i][2]
             IN  \A f \in { "twitter", "linkedin", "github", "website", "bio" } :
                   ~Falsy(old[f]) => new[f] = old[f]
    ]_vars

\* the profile page of an author who has a bio and a website from an article
\* was fetched; the page links another website, and the author got the
\* page's twitter link and kept bio and website
C16_Witness ==
  /\ variant = "sitemap" /\ call.op = "profile" /\ ~call.repeat
  /\ ~IsNone(call.ret)
  /\ TheValue(call.ret).website = "https://jane.example"
  /\ call.url = HACKERNOON_BASE \o "/u/jdoe"
  /\ MapGet(sc.authorsMap, "jdoe").twitter = "https://x.com/jane"
  /\ MapGet(sc.authorsMap, "jdoe").website = "https://jane.dev"
  /\ MapGet(sc.authorsMap, "jdoe").bio = "X"

\* C17: a profile is fetched at most once per crawl state.  No profile page
\* is fetched twice, over the runs of scrapers continued from the exported
\* state and over direct calls of getProfileSocial and getProfile, and every
\* profile whose fetch was issued is in processedProfiles, whatever the fetch
\* gave.
C17_ProfileFetchedOnce ==
  variant \in { "sitemap", "browser" } =>
    /\ hist.profilesAgain = { }
    /\ hist.profiles \subseteq Range(sc.processedProfiles)

\* jdoe's profile was fetched once and left the author without links; in the
\* second run, continued from the exported state, a call for the same
\* profile returned null without a fetch
C17_Witness ==
  /\ variant = "sitemap" /\ obs.runs = 2
  /\ call.op = "getProfile" /\ call.repeat
  /\ call.url = HACKERNOON_BASE \o "/u/jdoe"
  /\ call.url \in hist.profiles
  /\ MapGet(sc.authorsMap, "jdoe").twitter = Undefined

\* C18: every author gets an enrichment attempt.  When a run completes, the
\* profileUrl of every author in the map is in processedProfiles.
C18_EveryAuthorAttempted ==
  (variant \in { "sitemap", "browser" } /\ pc = "finalized") =>
    \A i \in 1..Len(sc.authorsMap) :
      SetHas(sc.processedProfiles, sc.authorsMap[i][2].profileUrl)

\* a run completed with two authors in the map, the profile of the second
\* fetched last and without success
C18_Witness ==
  /\ variant = "sitemap" /\ pc = "finalized"
  /\ Len(sc.authorsMap) = 2
  /\ Len(run.needing) = 2
  /\ hist.profiles = { sc.authorsMap[1][2].profileUrl, sc.authorsMap[2][2].profileUrl }
  /\ sc.authorsMap[2][2].twitter = Undefined

\* whether a link names the domain of a platform
OnPlatform(f, href) ==
  LET h == ToLowerCase(href)
  IN  CASE f = "twitter"  -> Includes(h, "twitter.com/") \/ Includes(h, "x.com/")
        [] f = "linkedin" -> Includes(h, "linkedin.com/")
        [] f = "github"   -> Includes(h, "github.com/")

\* the platform identifier a page should give: the first link on the
\* platform's domain that does not contain the site's domain
FirstOffSite(links, f) ==
  FirstLink(links, LAMBDA href : /\ OnPlatform(f, href)
                                 /\ ~Includes(ToLowerCase(href), "hackernoon"))

\* C19: platform identifiers never point back to the crawled site.  The
\* twitter, linkedin and github values a profile page gives are each the
\* first link on the platform's domain that does not contain the site's
\* domain, so a link containing the site's domain is rejected for all three.
C19_PlatformLinksOffSite ==
  (call.op = "profile" /\ ~call.repeat /\ ~IsNone(call.ret)) =>
    LET social == IF variant = "sitemap" THEN TheValue(call.ret)
                  ELSE TheValue(call.ret).social
        links == TheValue(call.content).links
    IN  \A f \in { "twitter", "linkedin", "github" } :
          social[f] = FirstOffSite(links, f)

\* C20: finalization is a pure read.  Projecting the state into the authors
\* list, for the whole map or for one author, leaves authorsMap (each
\* author's keyword set included), authorArticles and the three progress
\* sets as they were.
C20_FinalizationIsPure ==
  [][ call'.op \in { "finalize", "finalize-author" } => sc' = sc ]_vars

\* ---------------------------------------------------------------------------
\* The service while a run is in progress, and what a run that ends early
\* leaves behind

\* C21: at most one scrape run is in progress: while a run is in progress no
\* POST /api/scrape is accepted, the flag scrapeInProgress is set, and a
\* request answered 409 SCRAPE_IN_PROGRESS constructs no scraper and leaves
\* scraperState, cachedResults, scrapeHistory, the data file and the run as
\* they were
C21_MutualExclusion ==
  /\ [](svc.up /\ pc # "idle" => svc.scrapeInProgress)
  /\ [][ /\ (svc.up /\ pc # "idle" => obs'.runs = obs.runs)
         /\ (obs'.response = "SCRAPE_IN_PROGRESS" /\ obs.response # "SCRAPE_IN_PROGRESS"
               => pc # "idle" /\ UNCHANGED << sc, pc, svc, file, run >>) ]_vars

\* a request was answered 409 while the run was in its article loop
C21_Witness ==
  obs.response = "SCRAPE_IN_PROGRESS" /\ pc = "articles" /\ run.i > 1

\* the progress marks of a scraper, and whether each mark of a is one of b
MarksKept(a, b) ==
  /\ Range(a.seenSlugs) \subseteq Range(b.seenSlugs)
  /\ Range(a.processedUrls) \subseteq Range(b.processedUrls)
  /\ Range(a.processedProfiles) \subseteq Range(b.processedProfiles)

\* C22: when a run aborts the request is answered SCRAPE_FAILED and every
\* slug, URL and profile the run had marked is marked in the scraper the
\* next run is constructed with
C22_ProgressRetainedOnAbort ==
  [][ svc.up /\ pc # "idle" /\ svc'.up /\ pc' = "idle" /\ obs'.response # "OK"
        => /\ obs'.response = "SCRAPE_FAILED"
           /\ MarksKept(sc, Constructor(svc'.scraperState)) ]_vars

\* C23: when the process is terminated (SIGTERM, SIGINT) or killed while a
\* run is in progress, every URL and every profile the run had marked as
\* processed is marked in the state loaded from the data file at the restart
C23_TerminatedRunKeepsMarks ==
  [][ svc.up /\ ~svc'.up /\ pc # "idle"
        => LET restarted == Constructor(LoadPersistedData(file').scraperState)
           IN  /\ Range(sc.processedUrls) \subseteq Range(restarted.processedUrls)
               /\ Range(sc.processedProfiles)
                     \subseteq Range(restarted.processedProfiles) ]_vars

\* ---------------------------------------------------------------------------
\* Fetching: fetchPage and safeGoto attempt by attempt, and the fetches and
\* delays of scrape() in the order in which it awaits them

MaxRetries == 3                   \* the retries a caller may ask for
MaxUnits == 2                     \* sitemaps, articles, profiles of a run

\* async fetchPage(url, retries = 3)
DefaultRetries == 3

MayAttemptOnceMore(i, retries) == i <= retries

\* for (let i = 0; i < retries; i++)
MayAttempt(i, retries) == i < retries

RateLimitWaitFlat(i) == 5000

\* await this.delay(5000 * (i + 1)) after a 429
RateLimitWait(i) == 5000 * (i + 1)

\* await this.delay(2000 * (i + 1)) after a thrown error
ErrorWait(i) == 2000 * (i + 1)

\* safeGoto: await this.delay(2000), after a navigation and before the next
GotoDelay == 2000

\* scrape: the delays that end a turn of the loops over sitemaps, articles
\* and profiles
SitemapDelay == 1000
ArticleDelay == 500
ProfileDelay == 600

\* what an attempt of fetchPage may meet: a response that is ok, a 429, any
\* other status that is not ok, or an error thrown by fetch or by text()
FetchOutcomes == { "ok", "429", "status", "throw" }

\* what page.goto may do: resolve, or throw an error whose message does or
\* does not name a detached frame or a closed target
GotoOutcomes == { "ok", "error", "detached" }

\* a call of fetchPage or safeGoto: its loop variable, the requests issued,
\* those that failed, the waits it made, whether this.init() rejected, and
\* what it returned
NoFetch ==
  [ op |-> "none", retries |-> 0, i |-> 0, attempts |-> 0, failed |-> 0,
    waits |-> << >>, initFailed |-> FALSE, ret |-> "pending" ]

\* the lists scrape() still has to walk
NoFetchRun == [ phase |-> "index", sitemaps |-> 0, articles |-> 0, profiles |-> 0 ]

\* the last thing awaited on the network side: a request or a delay
NoEvent == [ last |-> "none", ms |-> 0 ]

Delayed(ms) == [ last |-> "delay", ms |-> ms ]

Requested == [ last |-> "fetch", ms |-> 0 ]

FetchInit ==
  /\ variant \in { "scrape", "fetchPage", "safeGoto" }
  /\ sc = Constructor(None)
  /\ pc = "call"
  /\ cur = NoArticle
  /\ call = NoFetch
  /\ hist = NoEvent
  /\ svc = Globals
  /\ file = None
  /\ run = NoFetchRun
  /\ obs = NoObs

\* whether scrape() has a unit to fetch in its current phase
UnitWaiting ==
  \/ run.phase = "index"
  \/ run.phase = "sitemaps" /\ run.sitemaps > 0
  \/ run.phase = "articles" /\ run.articles > 0
  \/ run.phase = "profiles" /\ run.profiles > 0

\* fetchPage(url) is called by scrape(), collectFromSitemap, getArticleData
\* or getProfileSocial with the default retries, or fetchPage(url, retries)
\* and safeGoto(url, retries) by a caller of its own
FetchCalled ==
  /\ pc = "call"
  /\ IF variant = "scrape"
     THEN /\ UnitWaiting
          /\ call' = [ NoFetch EXCEPT !.op = "fetchPage", !.retries = DefaultRetries ]
     ELSE \E retries \in 0..MaxRetries :
            call' = [ NoFetch EXCEPT !.op = variant, !.retries = retries ]
  /\ pc' = "loop"
  /\ UNCHANGED << variant, sc, cur, hist, svc, file, run, obs >>

\* one turn of the loop of fetchPage
AttemptMade ==
  /\ pc = "loop" /\ call.op = "fetchPage"
  /\ MayAttempt(call.i, call.retries)
  /\ \E outcome \in FetchOutcomes :
       LET made == [ call EXCEPT !.attempts = @ + 1 ]
           failed == [ made EXCEPT !.failed = @ + 1 ]
       IN  CASE outcome = "ok" ->
                  /\ call' = [ made EXCEPT !.ret = "text" ]
                  /\ hist' = Requested
                  /\ pc' = "returned"
             [] outcome = "429" ->
                  /\ call' = [ failed EXCEPT
                                 !.i = @ + 1,
                                 !.waits = Append(@, [ cause |-> "429", i |-> call.i,
                                                       ms |-> RateLimitWait(call.i) ]) ]
                  /\ hist' = Delayed(RateLimitWait(call.i))
                  /\ pc' = "loop"
             [] outcome = "status" ->
                  /\ call' = [ failed EXCEPT !.ret = "null" ]
                  /\ hist' = Requested
                  /\ pc' = "returned"
             [] outcome = "throw" ->
                  /\ call' = [ failed EXCEPT
                                 !.i = @ + 1,
                                 !.waits = Append(@, [ cause |-> "throw", i |-> call.i,
                                                       ms |-> ErrorWait(call.i) ]) ]
                  /\ hist' = Delayed(ErrorWait(call.i))
                  /\ pc' = "loop"
  /\ UNCHANGED << variant, sc, cur, svc, file, run, obs >>

\* the loop of fetchPage ends: return null
AttemptsExhausted ==
  /\ pc = "loop" /\ call.op = "fetchPage"
  /\ ~MayAttempt(call.i, call.retries)
  /\ call' = [ call EXCEPT !.ret = "null" ]
  /\ pc' = "returned"
  /\ UNCHANGED << variant, sc, cur, hist, svc, file, run, obs >>

\* one turn of the loop of safeGoto, for (let i = 0; i <= retries; i++); with
\* retries >= 0 the turn in which i === retries returns, so the return false
\* after the loop is never reached
GotoAttempted ==
  /\ pc = "loop" /\ call.op = "safeGoto"
  /\ call.i <= call.retries
  /\ \E outcome \in GotoOutcomes, initRejects \in BOOLEAN :
       LET made == [ call EXCEPT !.attempts = @ + 1 ]
           failed == [ made EXCEPT !.failed = @ + 1 ]
       IN  IF outcome = "ok"
           THEN /\ call' = [ made EXCEPT !.ret = "true" ]
                /\ hist' = Delayed(GotoDelay)
                /\ pc' = "returned"
           ELSE IF call.i = call.retries
           THEN /\ call' = [ failed EXCEPT !.ret = "false" ]
                /\ hist' = Requested
                /\ pc' = "returned"
           ELSE IF outcome = "detached" /\ initRejects
           THEN /\ call' = [ failed EXCEPT !.initFailed = TRUE, !.ret = "threw" ]
                /\ hist' = Requested
                /\ pc' = "returned"
           ELSE /\ call' = [ failed EXCEPT
                               !.i = @ + 1,
                               !.waits = Append(@, [ cause |-> outcome, i |-> call.i,
                                                     ms |-> GotoDelay ]) ]
                /\ hist' = Delayed(GotoDelay)
                /\ pc' = "loop"
  /\ UNCHANGED << variant, sc, cur, svc, file, run, obs >>

\* scrape: the sitemap index is back; the sitemaps to read are counted and
\* the loop over them begins
IndexReturned ==
  /\ variant = "scrape" /\ pc = "returned" /\ run.phase = "index"
  /\ \E n \in 0..MaxUnits :
       /\ call.ret = "null" => n = 0
       /\ run' = [ run EXCEPT !.phase = "sitemaps", !.sitemaps = n ]
  /\ pc' = "call"
  /\ UNCHANGED << variant, sc, cur, call, hist, svc, file, obs >>

\* scrape: collectFromSitemap is back with its references, then delay(1000)
SitemapReturned ==
  /\ variant = "scrape" /\ pc = "returned" /\ run.phase = "sitemaps"
  /\ \E n \in 0..1 :
       /\ call.ret = "null" => n = 0
       /\ run' = [ run EXCEPT !.sitemaps = @ - 1, !.articles = @ + n ]
  /\ hist' = Delayed(SitemapDelay)
  /\ pc' = "call"
  /\ UNCHANGED << variant, sc, cur, call, svc, file, obs >>

\* scrape: getArticleData is back, the merge is done, then delay(500)
ArticleReturned ==
  /\ variant = "scrape" /\ pc = "returned" /\ run.phase = "articles"
  /\ run' = [ run EXCEPT !.articles = @ - 1 ]
  /\ hist' = Delayed(ArticleDelay)
  /\ pc' = "call"
  /\ UNCHANGED << variant, sc, cur, call, svc, file, obs >>

\* scrape: getProfileSocial is back, the author is enriched, then delay(600)
ProfileReturned ==
  /\ variant = "scrape" /\ pc = "returned" /\ run.phase = "profiles"
  /\ run' = [ run EXCEPT !.profiles = @ - 1 ]
  /\ hist' = Delayed(ProfileDelay)
  /\ pc' = "call"
  /\ UNCHANGED << variant, sc, cur, call, svc, file, obs >>

\* scrape: getProfileSocial returns null for a profile already processed,
\* without a fetch, then delay(600)
ProfileSkipped ==
  /\ variant = "scrape" /\ pc = "call" /\ run.phase = "profiles" /\ run.profiles > 0
  /\ run' = [ run EXCEPT !.profiles = @ - 1 ]
  /\ hist' = Delayed(ProfileDelay)
  /\ UNCHANGED << variant, sc, pc, cur, call, svc, file, obs >>

\* scrape: a loop has no turn left; the authors needing social links are
\* counted when phase 3 begins
PhaseAdvanced ==
  /\ variant = "scrape" /\ pc = "call" /\ ~UnitWaiting
  /\ CASE run.phase = "sitemaps" ->
            /\ run' = [ run EXCEPT !.phase = "articles" ]
            /\ pc' = pc
       [] run.phase = "articles" ->
            /\ \E n \in 0..MaxUnits : run' = [ run EXCEPT !.phase = "profiles", !.profiles = n ]
            /\ pc' = pc
       [] run.phase = "profiles" ->
            /\ run' = run
            /\ pc' = "done"
  /\ UNCHANGED << variant, sc, cur, call, hist, svc, file, obs >>

FetchNext ==
  \/ FetchCalled
  \/ AttemptMade
  \/ AttemptsExhausted
  \/ GotoAttempted
  \/ IndexReturned
  \/ SitemapReturned
  \/ ArticleReturned
  \/ ProfileReturned
  \/ ProfileSkipped
  \/ PhaseAdvanced

SpecFetch == FetchInit /\ [][FetchNext]_vars

\* ---------------------------------------------------------------------------
\* Retries, waits and delays

\* a call that has ended after nothing but failed attempts
AllAttemptsFailed == call.ret # "pending" /\ call.failed = call.attempts

\* C24 as stated: fetchPage makes at most retries fetch attempts and safeGoto
\* at most retries + 1 navigation attempts, and a call whose attempts all
\* failed returns null / false and never throws
C24_BoundedRetry ==
  /\ call.op = "fetchPage"
       => /\ call.attempts <= call.retries
          /\ call.ret # "threw"
          /\ AllAttemptsFailed => call.ret = "null"
  /\ call.op = "safeGoto"
       => /\ call.attempts <= call.retries + 1
          /\ call.ret # "threw"
          /\ AllAttemptsFailed => call.ret = "false"

\* C24, amended: the bounds on the attempts hold for every sequence of
\* outcomes; fetchPage never throws and returns null when every attempt
\* failed; safeGoto throws exactly when this.init(), called after an error
\* naming a detached frame or a closed target, rejects, and otherwise
\* returns false when every attempt failed
C24_BoundedRetryUnlessInitFails ==
  /\ call.op = "fetchPage"
       => /\ call.attempts <= call.retries
          /\ call.ret # "threw"
          /\ AllAttemptsFailed => call.ret = "null"
  /\ call.op = "safeGoto"
       => /\ call.attempts <= call.retries + 1
          /\ call.ret = "threw" <=> call.initFailed
          /\ AllAttemptsFailed /\ ~call.initFailed => call.ret = "false"

\* safeGoto(url, 2) returned false after three navigations, the browser
\* having been started again after a detached frame
C24_Witness ==
  /\ call.op = "safeGoto" /\ call.retries = 2 /\ call.attempts = 3
  /\ call.ret = "false"
  /\ \E k \in 1..Len(call.waits) : call.waits[k].cause = "detached"

\* C25: every kind of fetch failure is retried: when fetchPage returns null
\* it has made all the attempts it was allowed, whether they failed by a
\* status that is not a success, by a timeout or by a network error
C25_EveryFailureRetried ==
  call.op = "fetchPage" /\ call.ret = "null" => call.attempts = call.retries

\* C26: in fetchPage the wait after a 429 on attempt i is 5000 * (i + 1) ms
\* and the wait after a thrown error 2000 * (i + 1) ms; at every attempt the
\* wait after a 429 is longer than the wait after an error, and of two waits
\* of one call for the same reason the later one is longer
C26_BackoffSchedule ==
  call.op = "fetchPage"
    => /\ \A k \in 1..Len(call.waits) :
            LET w == call.waits[k]
            IN  /\ w.cause = "429" => w.ms = 5000 * (w.i + 1)
                /\ w.cause = "throw" => w.ms = 2000 * (w.i + 1)
                /\ RateLimitWait(w.i) > ErrorWait(w.i)
       /\ \A k, l \in 1..Len(call.waits) :
            k < l /\ call.waits[k].cause = call.waits[l].cause
              => call.waits[k].ms < call.waits[l].ms

\* a call of fetchPage has waited twice after a 429 and once after an error
C26_Witness ==
  /\ call.op = "fetchPage" /\ Len(call.waits) = 3
  /\ call.waits[1].cause = "429" /\ call.waits[2].cause = "throw"
  /\ call.waits[3].cause = "429"

\* C29: no request is issued directly after a request: between any two
\* consecutive fetches of a run (sitemap index, sitemaps, articles,
\* profiles, retries of one URL) there is a delay
C29_DelayBetweenFetches ==
  [][ variant = "scrape" /\ call'.attempts = call.attempts + 1
        => hist.last # "fetch" ]_vars

\* ---------------------------------------------------------------------------
\* A run whose fetches fail

\* the handles of a Map of authors
KnownHandles(authorsMap) == { authorsMap[k][1] : k \in 1..Len(authorsMap) }

\* C27: a fetch that fails (sitemap index, sitemap, article, profile) does
\* not end the run: the step leaves the run in progress, adds no reference,
\* no author and no article, and every author known when the run began is
\* known throughout the run and is in the result it returns
C27_FetchFailureDoesNotAbort ==
  /\ [](svc.up /\ pc # "idle"
          => KnownHandles(run.start.authorsMap) \subseteq KnownHandles(sc.authorsMap))
  /\ [][ /\ run'.fetches = "failed"
              => /\ pc' # "idle" /\ svc'.scrapeInProgress
                 /\ run'.allArticles = run.allArticles
                 /\ sc'.authorsMap = sc.authorsMap
                 /\ sc'.authorArticles = sc.authorArticles
         /\ IsScrapeFinished
              => KnownHandles(run.start.authorsMap)
                   \subseteq HandlesOf(TheValue(svc'.cachedResults).authors) ]_vars

\* a run that began with a known author returned a result although its last
\* fetch had failed
C27_Witness ==
  /\ obs.response = "OK" /\ obs.degraded
  /\ obs.start.authorsMap # << >>
  /\ ~IsNone(svc.cachedResults)

\* ---------------------------------------------------------------------------
\* The relevance filter of the sitemap extractor

\* the page of an article names no handle, or its title, excerpt and tags
\* contain no keyword of SEARCH_KEYWORDS and no tag of TAG_KEYWORDS
Irrelevant(resp) ==
  /\ resp.kind = "page"
  /\ \/ Falsy(resp.props.profile.handle)
     \/ ~MatchesKeywords(resp.props.title, resp.props.excerpt, resp.props.tags)

\* C28: for an article whose page yields no handle or matches no keyword and
\* no tag, getArticleData returns null, and the turn of scrape() creates no
\* author, updates none and appends no article
C28_RelevanceFilter ==
  [][ variant = "sitemap" /\ call'.op = "extract" /\ pc = "fetching"
      /\ Irrelevant(call'.resp)
        => /\ IsNone(call'.ret)
           /\ sc'.authorsMap = sc.authorsMap
           /\ sc'.authorArticles = sc.authorArticles ]_vars

\* an article about cooking by an author who is known already was extracted
C28_Witness ==
  /\ variant = "sitemap" /\ call.op = "extract" /\ Irrelevant(call.resp)
  /\ ~Falsy(call.resp.props.profile.handle)
  /\ MapHas(sc.authorsMap, call.resp.props.profile.handle)

\* ---------------------------------------------------------------------------
\* GET /api/results and GET /api/csv

C31_StoredArticlesBounded ==
  \A k \in 1..Len(sc.authorArticles) : Len(sc.authorArticles[k][2]) <= SampleCap

\* ---------------------------------------------------------------------------
\* Relevance and the matched keywords

\* C32: an article for which getArticleData would build a non-empty
\* matchedKeywords (a keyword in its title or excerpt, or one of its tags in
\* TAG_KEYWORDS) is judged relevant by matchesKeywords, and when its page
\* names a handle the extractor returns its data
C32_TagSlugsMatch ==
  variant = "sitemap" /\ call.op = "extract"
    => \/ call.resp.kind # "page"
       \/ LET p == call.resp.props
          IN  MatchedKeywordList(p.title, p.excerpt, p.tags) # << >>
                => /\ MatchesKeywords(p.title, p.excerpt, p.tags)
                   /\ ~Falsy(p.profile.handle) => ~IsNone(call.ret)

\* C33: every author of the result of a run who was created in that run has
\* at least one matched keyword
C33_ReportedAuthorHasKeyword ==
  [][ IsScrapeFinished
        => LET authors == TheValue(svc'.cachedResults).authors
           IN  \A k \in 1..Len(authors) :
                 authors[k].handle \notin KnownHandles(run.start.authorsMap)
                   => authors[k].matchedKeywords # << >> ]_vars

\* ---------------------------------------------------------------------------
\* Slugs committed by a collect call

\* C34: every slug a collect call adds to seenSlugs is the slug of a
\* reference that call returns
C34_SeenSlugIsReturned ==
  [][ call'.op = "collect"
        => Range(sc'.seenSlugs) \ Range(sc.seenSlugs) \subseteq SlugsOf(call'.ret) ]_vars


\* C35: a scrape request that did not ask for reset and ends with
\* SCRAPE_FAILED, no POST /api/reset having come meanwhile, leaves
\* scraperState and cachedResults what they were when the request arrived
C35_FailedRunLeavesStateUntouched ==
  [][ pc = "articles" /\ pc' = "idle" /\ obs'.response = "SCRAPE_FAILED"
        /\ run.aliased
        => /\ svc'.scraperState = Some(run.start)
           /\ svc'.cachedResults = svc.cachedResults ]_vars


\* C36: a scrape in progress when POST /api/reset responded does not
\* repopulate scraperState, cachedResults and scrapeHistory when it finishes.
\* A run constructed from a stored state whose objects are no longer those of
\* the global scraperState is a run during which the reset responded.
C36_ResetNotUndone ==
  [][ IsScrapeFinished /\ run.start # EmptyState /\ ~run.aliased
        => /\ IsNone(svc'.scraperState)
           /\ IsNone(svc'.cachedResults)
           /\ svc'.scrapeHistory = << >> ]_vars


\* C37: a scrape request that set scrapeInProgress ends, by success, by an
\* exception or with the process, and scrapeInProgress is false again
C37_FlagReleased ==
  svc.scrapeInProgress ~> (pc = "idle" /\ ~svc.scrapeInProgress)

\* a request ended by an exception and the flag is released
C37_Witness ==
  /\ svc.up /\ pc = "idle" /\ obs.response = "SCRAPE_FAILED"
  /\ ~svc.scrapeInProgress


\* C38: a scraper constructed with null or undefined is constructed without
\* an exception and its state is the empty CrawlState
C38_NullStateConstructs ==
  call.op = "construct" /\ call.source \in NoStateArguments
    => ~call.threw /\ ExportState(sc) = EmptyState


\* C39: when a run completes, stats.totalAuthors is the number of authors of
\* the state the run started from plus stats.newAuthorsThisRun, and it is the
\* number of entries of the exported authorsMap
C39_AuthorCount ==
  [][ IsScrapeFinished =>
        LET R == TheValue(svc'.cachedResults)
            E == TheValue(svc'.scraperState)
        IN  /\ R.stats.totalAuthors
                 = Len(run.start.authorsMap) + R.stats.newAuthorsThisRun
            /\ R.stats.totalAuthors = Len(E.authorsMap) ]_vars

\* a run that started from a state with an author completed with a new one
C39_Witness ==
  /\ pc = "idle" /\ svc.up /\ obs.response = "OK"
  /\ ~IsNone(svc.cachedResults)
  /\ Len(obs.start.authorsMap) >= 1
  /\ TheValue(svc.cachedResults).stats.newAuthorsThisRun >= 1
  /\ TheValue(svc.cachedResults).stats.totalAuthors
       = Len(obs.start.authorsMap) + TheValue(svc.cachedResults).stats.newAuthorsThisRun


\* C40: whenever the profile phase changes the stored name of an author, the
\* name stored is non-empty and strictly longer than the name it replaces
C40_NameNeverShorter ==
  [][ pc = "profiles"
        => \A k \in 1..Len(sc.authorsMap) :
             LET h   == sc.authorsMap[k][1]
                 old == sc.authorsMap[k][2].name
                 new == MapGet(sc'.authorsMap, h).name
             IN  MapHas(sc'.authorsMap, h) /\ new # old
                   => /\ ~Falsy(new)
                      /\ Len(new) > (IF Falsy(old) THEN 0 ELSE Len(old)) ]_vars

====
